---------------------------- MODULE Spec2Model ----------------------------
(***************************************************************************)
(* Temporal graph dashboard: the snapshot decoder                          *)
(* (TemporalGraph._json_to_graph), the snapshot cache                       *)
(* (TemporalGraph.load_graph_at_timestamp under functools.lru_cache) and   *)
(* the structural queries run on a decoded graph.                          *)
(***************************************************************************)
EXTENDS Integers, Sequences, FiniteSets, TLC

VARIABLES
    files,   \* TemporalGraph.files: the snapshot documents, by timestamp
    cache,   \* the lru_cache of load_graph_at_timestamp, oldest entry first
    io,      \* the file indices (0-based) opened by the last call
    ret,     \* the outcome of the last call
    graph,   \* main's local `graph`: the decoded graph the queries run on
    recent   \* observer: the keys ever served, least recently served first

vars == <<files, cache, io, ret, graph, recent>>

(***************************************************************************)
(* JSON scalars.  A record's values are strings and numbers; Python's ==   *)
(* between a string and a number is False, so both carry a tag.            *)
(***************************************************************************)
Str(x) == [k |-> "str", s |-> x, n |-> 0]
Num(x) == [k |-> "num", s |-> "", n |-> x]

Min2(a, b) == IF a <= b THEN a ELSE b

\* The set of the indices of a sequence.
Idx(seq) == 1..Len(seq)

(***************************************************************************)
(* Python dicts with string keys, as functions.                            *)
(***************************************************************************)
EmptyDict == [x \in {} |-> Str("")]

\* dict.update(e): the keys of e are overwritten, the others kept.
DictUpdate(d, e) ==
    [x \in (DOMAIN d) \cup (DOMAIN e) |-> IF x \in DOMAIN e THEN e[x] ELSE d[x]]

\* dict(zip(names, values)): zip stops at the shorter sequence, and of two
\* equal names the later position wins.
ZipDict(names, values) ==
    LET n == Min2(Len(names), Len(values))
    IN  [x \in {names[j] : j \in 1..n} |->
            values[CHOOSE j \in 1..n :
                      /\ names[j] = x
                      /\ \A j2 \in 1..n : names[j2] = x => j2 <= j]]

(***************************************************************************)
(* networkx graphs.  node: vertex key -> attribute dict.  adj: (u, v) ->   *)
(* attribute dict; an undirected graph holds every edge under both         *)
(* orders, sharing one attribute dict.                                     *)
(***************************************************************************)
NewGraph(directed) ==
    [directed |-> directed,
     node |-> [x \in {} |-> EmptyDict],
     adj |-> [e \in {} |-> EmptyDict]]

\* add_node as a store that replaces the attribute dict of an existing vertex.
add_nodeReplacing(G, n, attr) ==
    [G EXCEPT !.node = [x \in (DOMAIN G.node) \cup {n} |-> IF x = n THEN attr ELSE G.node[x]]]

\* Graph.add_node(n, **attr): a new vertex gets attr; an existing vertex
\* has its attribute dict updated with attr.
add_node(G, n, attr) ==
    LET old == IF n \in DOMAIN G.node THEN G.node[n] ELSE EmptyDict
    IN  [G EXCEPT !.node =
            [x \in (DOMAIN G.node) \cup {n} |->
                IF x = n THEN DictUpdate(old, attr) ELSE G.node[x]]]

\* add_edge as a store that replaces the attribute dict of an existing edge.
add_edgeReplacing(G, u, v, attr) ==
    LET keys  == IF G.directed THEN {<<u, v>>} ELSE {<<u, v>>, <<v, u>>}
    IN  [G EXCEPT
            !.node = [x \in (DOMAIN G.node) \cup {u, v} |->
                        IF x \in DOMAIN G.node THEN G.node[x] ELSE EmptyDict],
            !.adj  = [e \in (DOMAIN G.adj) \cup keys |->
                        IF e \in keys THEN attr ELSE G.adj[e]]]

\* Graph.add_edge(u, v, **attr): missing endpoints become vertices without
\* attributes; the edge's attribute dict (empty when the edge is new) is
\* updated with attr.
add_edge(G, u, v, attr) ==
    LET old   == IF <<u, v>> \in DOMAIN G.adj THEN G.adj[<<u, v>>] ELSE EmptyDict
        new   == DictUpdate(old, attr)
        keys  == IF G.directed THEN {<<u, v>>} ELSE {<<u, v>>, <<v, u>>}
    IN  [G EXCEPT
            !.node = [x \in (DOMAIN G.node) \cup {u, v} |->
                        IF x \in DOMAIN G.node THEN G.node[x] ELSE EmptyDict],
            !.adj  = [e \in (DOMAIN G.adj) \cup keys |->
                        IF e \in keys THEN new ELSE G.adj[e]]]

(***************************************************************************)
(* Outcomes of a call: a returned value or a raised exception.             *)
(***************************************************************************)
NoGraph == NewGraph(FALSE)

Returned(G) == [exc |-> "none", graph |-> G]
Raised(e)   == [exc |-> e, graph |-> NoGraph]

\* seq[-1] and seq[-2] of a Python list.
Last(seq)       == seq[Len(seq)]
SecondLast(seq) == seq[Len(seq) - 1]

(***************************************************************************)
(* TemporalGraph._json_to_graph                                            *)
(***************************************************************************)
\* DecodeNode keying the vertex by the record's first value.
DecodeNodeKeyedByFirst(data, node_type, node, out) ==
    IF out.exc # "none" THEN out
    ELSE IF Len(node) = 0 THEN Raised("IndexError")
    ELSE IF "node_types" \notin DOMAIN data THEN Raised("KeyError")
    ELSE IF node_type \notin DOMAIN data.node_types THEN Raised("KeyError")
    ELSE Returned(add_node(out.graph, node[1],
                           ZipDict(data.node_types[node_type], node)))

\* DecodeNode zipping the field names against the values after the first.
DecodeNodeSkippingFirst(data, node_type, node, out) ==
    IF out.exc # "none" THEN out
    ELSE IF Len(node) = 0 THEN Raised("IndexError")
    ELSE IF "node_types" \notin DOMAIN data THEN Raised("KeyError")
    ELSE IF node_type \notin DOMAIN data.node_types THEN Raised("KeyError")
    ELSE Returned(add_node(out.graph, Last(node),
                           ZipDict(data.node_types[node_type], Tail(node))))

\* One node record of bucket node_type (main.py lines 24-26).
DecodeNode(data, node_type, node, out) ==
    IF out.exc # "none" THEN out
    ELSE IF Len(node) = 0 THEN Raised("IndexError")
    ELSE IF "node_types" \notin DOMAIN data THEN Raised("KeyError")
    ELSE IF node_type \notin DOMAIN data.node_types THEN Raised("KeyError")
    ELSE Returned(add_node(out.graph, Last(node),
                           ZipDict(data.node_types[node_type], node)))

RECURSIVE DecodeNodes(_, _, _, _)
DecodeNodes(data, node_type, nodes, out) ==
    IF nodes = <<>> THEN out
    ELSE DecodeNodes(data, node_type, Tail(nodes),
                     DecodeNode(data, node_type, Head(nodes), out))

\* data["node_values"].items(), in document order: a sequence of
\* [type, nodes] buckets.
RECURSIVE DecodeBuckets(_, _, _)
DecodeBuckets(data, buckets, out) ==
    IF buckets = <<>> THEN out
    ELSE DecodeBuckets(data, Tail(buckets),
                       DecodeNodes(data, Head(buckets).type, Head(buckets).nodes, out))

\* `i[0] in all_edge_types`: only a string equals a key.
KnownType(all_edge_types, v) == v.k = "str" /\ v.s \in DOMAIN all_edge_types

\* EdgeAttributes pairing the names with the values after the type name.
EdgeAttributesAfterTypeName(names, i) == ZipDict(names, SubSeq(i, 2, Len(i) - 2))

\* The attribute dict of a relationship record of a known type (main.py
\* lines 31-34): for j in range(len(i) - 2), attributes[names[j]] = i[j].
EdgeAttributes(names, i) == ZipDict(SubSeq(names, 1, Len(i) - 2), SubSeq(i, 1, Len(i) - 2))

\* One relationship record (main.py lines 30-37).
DecodeEdge(all_edge_types, i, out) ==
    IF out.exc # "none" THEN out
    ELSE IF Len(i) = 0 THEN Raised("IndexError")
    ELSE IF KnownType(all_edge_types, i[1])
    THEN IF Len(i) - 2 > Len(all_edge_types[i[1].s]) \/ Len(i) < 2
         THEN Raised("IndexError")
         ELSE Returned(add_edge(out.graph, SecondLast(i), Last(i),
                                EdgeAttributes(all_edge_types[i[1].s], i)))
    ELSE IF Len(i) < 2 THEN Raised("IndexError")
         ELSE Returned(add_edge(out.graph, i[1], i[2], EmptyDict))

RECURSIVE DecodeEdges(_, _, _)
DecodeEdges(all_edge_types, records, out) ==
    IF records = <<>> THEN out
    ELSE DecodeEdges(all_edge_types, Tail(records),
                     DecodeEdge(all_edge_types, Head(records), out))

_json_to_graph(data) ==
    IF "directed" \notin DOMAIN data \/ "node_values" \notin DOMAIN data
    THEN Raised("KeyError")
    ELSE LET nodesDone == DecodeBuckets(data, data.node_values,
                                        Returned(NewGraph(data.directed)))
         IN  IF nodesDone.exc # "none" THEN nodesDone
             ELSE IF "relationship_types" \notin DOMAIN data
                     \/ "relationship_values" \notin DOMAIN data
             THEN Raised("KeyError")
             ELSE DecodeEdges(data.relationship_types, data.relationship_values,
                              nodesDone)


(***************************************************************************)
(* Snapshot documents.  A document is a record over the top-level keys it  *)
(* holds; node_values is the sequence of its [type, nodes] buckets in      *)
(* document order.                                                         *)
(***************************************************************************)
MaxRels == 2

PartRec     == <<Str("Parts"), Str("bolt"), Str("P1")>>
FacRec(id)  == <<Str("Facility"), Str("plant"), Str(id)>>

\* node_types as the pages read them (the type name's position is named
\* node_type), with per-type fields, without a node_type name, and with
\* fewer names than a record has values.
NodeTypeChoices ==
    { [Parts |-> <<"node_type", "name", "id">>, Facility |-> <<"node_type", "name", "id">>],
      [Parts |-> <<"node_type", "valid_from", "id">>,
       Facility |-> <<"node_type", "max_capacity", "id">>],
      [Parts |-> <<"kind", "name", "id">>, Facility |-> <<"kind", "name", "id">>],
      [Parts |-> <<"node_type", "id">>, Facility |-> <<"node_type", "name", "id">>] }

Bucket(type, nodes) == [type |-> type, nodes |-> nodes]

NodeValueChoices ==
    UNION { { <<Bucket("Parts", <<PartRec>>), Bucket("Facility", <<FacRec(f)>>)>>,
              <<Bucket("Facility", <<FacRec(f)>>), Bucket("Parts", <<PartRec>>)>> }
            : f \in {"F1", "P1"} }

\* relationship_types as the pages read them (position 0 of a record is
\* named relationship_type), as a list of the attributes alone, and as a
\* longer list that does not name relationship_type.
RelTypeChoices ==
    { [PartsToFacility |-> <<"relationship_type", "distance">>,
       SupplierToWarehouse |-> <<"relationship_type", "transportation_cost">>],
      [PartsToFacility |-> <<"distance">>,
       SupplierToWarehouse |-> <<"transportation_cost">>],
      [PartsToFacility |-> <<"distance", "lead_time">>,
       SupplierToWarehouse |-> <<"transportation_cost", "lead_time">>] }

RelRecords ==
    { <<Str(R), Num(c), Str(e[1]), Str(e[2])>> :
        R \in {"PartsToFacility", "SupplierToWarehouse"}, c \in {5, 7},
        e \in {<<"P1", "F1">>, <<"F1", "P1">>} }
    \cup { <<Str("Unknown"), Num(5), Str("P1"), Str("F1")>> }

SeqsUpTo(S, n) == UNION { [1..m -> S] : m \in 0..n }

Documents ==
    { [directed |-> d, node_types |-> nt, node_values |-> nv,
       relationship_types |-> rt, relationship_values |-> rv] :
        d \in BOOLEAN, nt \in NodeTypeChoices, nv \in NodeValueChoices,
        rt \in RelTypeChoices, rv \in SeqsUpTo(RelRecords, MaxRels) }

(***************************************************************************)
(* The outcome of the last call: the operation, its arguments (timestamp   *)
(* t, vertex v, radius r) and what it returned or raised.                  *)
(***************************************************************************)
Outcome(op, t, v, r, res) ==
    [op |-> op, t |-> t, v |-> v, r |-> r, exc |-> res.exc, graph |-> res.graph]

NoCall == Outcome("none", 0, Str(""), 0, Returned(NoGraph))

(***************************************************************************)
(* The decoder alone: one document, decoded once.                          *)
(***************************************************************************)
InitDecode ==
    /\ files \in { <<data>> : data \in Documents }
    /\ cache = <<>>
    /\ io = <<>>
    /\ ret = NoCall
    /\ graph = NoGraph
    /\ recent = <<>>

Decode ==
    /\ ret.op = "none"
    /\ ret' = Outcome("_json_to_graph", 0, Str(""), 0, _json_to_graph(files[1]))
    /\ UNCHANGED <<files, cache, io, graph, recent>>

NextDecode == Decode

SpecDecode == InitDecode /\ [][NextDecode]_vars

\* The document and the graph of a decode that returned.
Decoded == ret.op = "_json_to_graph" /\ ret.exc = "none"

data0 == files[1]


(***************************************************************************)
(* TemporalGraph.load_graph_at_timestamp under @lru_cache(maxsize=10).     *)
(***************************************************************************)
maxsize == 10

NFiles == 11

\* The snapshot of timestamp t: what it holds depends on t.
SnapshotAt(t) ==
    [directed |-> TRUE,
     node_types |-> [Parts |-> <<"node_type", "size", "id">>],
     node_values |-> <<Bucket("Parts", << <<Str("Parts"), Num(t), Str("P1")>> >>)>>,
     relationship_types |-> [PartsToFacility |-> <<"relationship_type", "distance">>],
     relationship_values |-> << <<Str("PartsToFacility"), Num(t), Str("P1"), Str("F1")>> >>]

\* A snapshot file without its relationship_values key.
Malformed(data) == [x \in (DOMAIN data) \ {"relationship_values"} |-> data[x]]

\* A file that open() or json.load() cannot read.
Unreadable == [unreadable |-> TRUE]

\* The file lists: every file well formed, or the file of timestamp 1
\* malformed or unreadable.
FileLists ==
    { [j \in 1..NFiles |-> IF j = 2 THEN second ELSE SnapshotAt(j - 1)]
      : second \in { SnapshotAt(1), Malformed(SnapshotAt(1)), Unreadable } }

\* self.files[timestamp]: Python's list indexing, negative indices counted
\* from the end.  The 0-based index of the file, or -1 for IndexError.
FileIndex(fs, timestamp) ==
    IF 0 <= timestamp /\ timestamp < Len(fs) THEN timestamp
    ELSE IF timestamp < 0 /\ -Len(fs) <= timestamp THEN Len(fs) + timestamp
    ELSE -1

CachedKeys(c) == { c[j].key : j \in Idx(c) }

\* A lookup that ignores the key.
EntryIgnoringKey(c, key) == c[1]

Entry(c, key) == c[CHOOSE j \in Idx(c) : c[j].key = key]

Without(seq, x) == SelectSeq(seq, LAMBDA y : y # x)
WithoutKey(c, key) == SelectSeq(c, LAMBDA y : y.key # key)

\* A hit that leaves the order of the entries as it was.
TouchKeepingOrder(c, key) == c

\* A hit makes its entry the newest.
Touch(c, key) == Append(WithoutKey(c, key), Entry(c, key))

\* A miss stores the new entry, dropping the oldest when maxsize are held.
Insert(c, key, G) ==
    Append(IF Len(c) >= maxsize THEN Tail(c) ELSE c, [key |-> key, value |-> G])

\* The cache after a miss that drops the oldest entry when the body raised.
AfterMissEvicting(c, key, res) ==
    IF res.exc = "none" THEN Insert(c, key, res.graph)
    ELSE IF Len(c) >= maxsize THEN Tail(c) ELSE c

\* The cache after a miss: lru_cache stores a result only when the body
\* returned one; an exception passes through it.
AfterMiss(c, key, res) == IF res.exc = "none" THEN Insert(c, key, res.graph) ELSE c

\* The body of load_graph_at_timestamp (main.py lines 16-18).
LoadBody(fs, timestamp) ==
    IF FileIndex(fs, timestamp) = -1 THEN Raised("IndexError")
    ELSE IF fs[FileIndex(fs, timestamp) + 1] = Unreadable THEN Raised("OSError")
    ELSE _json_to_graph(fs[FileIndex(fs, timestamp) + 1])

load_graph_at_timestamp(timestamp) ==
    IF timestamp \in CachedKeys(cache)
    THEN \* hit: the stored graph, no file opened, the entry made the newest
         /\ ret' = Outcome("load_graph_at_timestamp", timestamp, Str(""), 0,
                           Returned(Entry(cache, timestamp).value))
         /\ cache' = Touch(cache, timestamp)
         /\ io' = <<>>
         /\ recent' = Append(Without(recent, timestamp), timestamp)
    ELSE \* miss: the body runs; only a returned graph is stored
         LET res == LoadBody(files, timestamp) IN
         /\ ret' = Outcome("load_graph_at_timestamp", timestamp, Str(""), 0, res)
         /\ io' = IF FileIndex(files, timestamp) = -1 THEN <<>>
                  ELSE <<FileIndex(files, timestamp)>>
         /\ cache' = AfterMiss(cache, timestamp, res)
         /\ recent' = IF res.exc = "none" THEN Append(Without(recent, timestamp), timestamp)
                      ELSE recent

\* The timestamps asked for: main loads timestamp 0 first; then the slider
\* moves one forward (past the last file included), jumps to the first or
\* the last timestamp, or a caller passes a negative index.
Requests ==
    IF ret.op = "none" THEN {0}
    ELSE {0, NFiles - 1} \cup { t \in {ret.t + 1} : 0 < t /\ t <= NFiles } \cup {-1}

Load ==
    /\ \E timestamp \in Requests : load_graph_at_timestamp(timestamp)
    /\ UNCHANGED <<files, graph>>

Init ==
    /\ files \in FileLists
    /\ cache = <<>>
    /\ io = <<>>
    /\ ret = NoCall
    /\ graph = NoGraph
    /\ recent = <<>>

Next == Load

Spec == Init /\ [][Next]_vars

(***************************************************************************)
(* structural_queries.ego_graph_query: nx.ego_graph(graph, node_id,        *)
(* radius=radius) with the library's defaults (center=True,                *)
(* undirected=False, distance=None).                                       *)
(***************************************************************************)
MaxRadius == 3

\* The neighbours of a set of vertices, edges followed in both directions.
SuccessorsEitherWay(G, S) ==
    { e[2] : e \in { e \in DOMAIN G.adj : e[1] \in S } }
    \cup { e[1] : e \in { e \in DOMAIN G.adj : e[2] \in S } }

\* G[u] for the vertices u of S: the successors in a DiGraph, the
\* neighbours in a Graph.
Successors(G, S) == { e[2] : e \in { e \in DOMAIN G.adj : e[1] \in S } }

\* A search that goes one level further than the cutoff.
RECURSIVE WithinOneMore(_, _, _)
WithinOneMore(G, seen, cutoff) ==
    IF cutoff < 0 THEN seen
    ELSE WithinOneMore(G, seen \cup Successors(G, seen), cutoff - 1)

\* The keys of single_source_shortest_path_length(G, n, cutoff): the
\* breadth-first levels 0..cutoff from the source.
RECURSIVE Within(_, _, _)
Within(G, seen, cutoff) ==
    IF cutoff <= 0 THEN seen
    ELSE Within(G, seen \cup Successors(G, seen), cutoff - 1)

\* G.subgraph(nodes).copy(): the vertices of nodes that G holds, every edge
\* of G with both ends among them, attributes kept.
subgraph(G, nodes) ==
    [directed |-> G.directed,
     node |-> [x \in nodes \cap DOMAIN G.node |-> G.node[x]],
     adj |-> [e \in { e \in DOMAIN G.adj : e[1] \in nodes /\ e[2] \in nodes } |-> G.adj[e]]]

ego_graph_query(G, node_id, radius) ==
    IF node_id \notin DOMAIN G.node THEN Raised("NodeNotFound")
    ELSE Returned(subgraph(G, Within(G, {node_id}, radius)))

\* The snapshots queried: four parts, and any of six relationships among
\* them in document order (a chain, a way back, an edge into P1 alone, and
\* a relationship from P1 to itself).
QueryParts == {"P1", "P2", "P3", "P4"}

QueryRels ==
    << <<Str("PartsToFacility"), Num(1), Str("P1"), Str("P2")>>,
       <<Str("PartsToFacility"), Num(2), Str("P2"), Str("P3")>>,
       <<Str("PartsToFacility"), Num(3), Str("P3"), Str("P4")>>,
       <<Str("PartsToFacility"), Num(4), Str("P4"), Str("P1")>>,
       <<Str("PartsToFacility"), Num(5), Str("P3"), Str("P1")>>,
       <<Str("PartsToFacility"), Num(6), Str("P1"), Str("P1")>> >>

QuerySnapshot(d, chosen) ==
    [directed |-> d,
     node_types |-> [Parts |-> <<"node_type", "name", "id">>],
     node_values |-> <<Bucket("Parts",
                        << <<Str("Parts"), Str("bolt"), Str("P1")>>,
                           <<Str("Parts"), Str("nut"), Str("P2")>>,
                           <<Str("Parts"), Str("gear"), Str("P3")>>,
                           <<Str("Parts"), Str("axle"), Str("P4")>> >>)>>,
     relationship_types |-> [PartsToFacility |-> <<"relationship_type", "distance">>],
     relationship_values |-> SelectSeq(QueryRels, LAMBDA i : i \in chosen)]

QuerySnapshots ==
    { QuerySnapshot(d, chosen) :
        d \in BOOLEAN, chosen \in SUBSET { QueryRels[j] : j \in Idx(QueryRels) } }

InitQuery ==
    /\ files \in { <<data>> : data \in QuerySnapshots }
    /\ cache = <<>>
    /\ io = <<>>
    /\ ret = NoCall
    /\ graph = NoGraph
    /\ recent = <<>>

\* main.py line 64: graph = temporal_graph.load_graph_at_timestamp(0).
Main ==
    /\ ret.op = "none"
    /\ load_graph_at_timestamp(0)
    /\ graph' = ret'.graph
    /\ UNCHANGED files

\* The vertex ids a user may type: the parts, and an id no snapshot holds.
NodeIds == { Str(x) : x \in QueryParts \cup {"BG_001"} }

\* The queried graph after an ego query that narrows the graph itself to
\* the neighbourhood.
QueriedAfterEgoInPlace(G, res) == IF res.exc = "none" THEN res.graph ELSE G

\* nx.ego_graph builds a copy of the subgraph of the neighbourhood; the
\* queried graph, which is the cached object, is as it was.
QueriedAfterEgo(G, res) == G

\* The cache with G as the graph object stored under key.
Stored(c, key, G) == [j \in Idx(c) |-> IF c[j].key = key THEN [c[j] EXCEPT !.value = G] ELSE c[j]]

\* One ego query on main's graph.
EgoQuery ==
    /\ 0 \in CachedKeys(cache)
    /\ \E node_id \in NodeIds, radius \in 0..MaxRadius :
          LET res == ego_graph_query(graph, node_id, radius)
          IN  /\ ret' = Outcome("ego_graph_query", 0, node_id, radius, res)
              /\ graph' = QueriedAfterEgo(graph, res)
              /\ cache' = Stored(cache, 0, QueriedAfterEgo(graph, res))
    /\ io' = <<>>
    /\ UNCHANGED <<files, recent>>

\* The vertices with an edge into a vertex of S.
Predecessors(G, S) == { e[1] : e \in { e \in DOMAIN G.adj : e[2] \in S } }

\* The breadth-first search of nx.ancestors / nx.descendants run to its
\* end: everything reached from seen, against the
\* edges when reverse.
RECURSIVE Reached(_, _, _)
Reached(G, seen, reverse) ==
    LET next == IF reverse THEN Predecessors(G, seen) ELSE Successors(G, seen)
    IN  IF next \subseteq seen THEN seen
        ELSE Reached(G, seen \cup next, reverse)

\* ancestors with the source left among the vertices reached.
ancestorsKeepingSource(G, source) == Reached(G, {source}, TRUE)

\* nx.ancestors(G, source): the vertices the reverse search reaches, the
\* source itself excluded.
ancestors(G, source) == Reached(G, {source}, TRUE) \ {source}

\* nx.descendants(G, source).
descendants(G, source) == Reached(G, {source}, FALSE) \ {source}

get_ancestors_descendants(G, node_id) ==
    IF ~G.directed
    THEN [exc |-> "TypeError", ancestors |-> {}, descendants |-> {}]
    ELSE IF node_id \notin DOMAIN G.node
    THEN [exc |-> "ValueError", ancestors |-> {}, descendants |-> {}]
    ELSE [exc |-> "none", ancestors |-> ancestors(G, node_id),
          descendants |-> descendants(G, node_id)]

\* One ancestors-and-descendants query on main's graph.
LineageQuery ==
    /\ 0 \in CachedKeys(cache)
    /\ \E node_id \in NodeIds :
          LET res == get_ancestors_descendants(graph, node_id)
          IN  ret' = [op |-> "get_ancestors_descendants", v |-> node_id,
                      exc |-> res.exc, ancestors |-> res.ancestors,
                      descendants |-> res.descendants]
    /\ io' = <<>>
    /\ UNCHANGED <<files, cache, graph, recent>>

NextQuery == Main \/ EgoQuery \/ LineageQuery

SpecQuery == InitQuery /\ [][NextQuery]_vars

(***************************************************************************)
(* structural_queries.find_shortest_path: nx.shortest_path and             *)
(* nx.shortest_path_length with weight="weight".  With a source, a target  *)
(* and a weight these are networkx's bidirectional_dijkstra (the path) and *)
(* dijkstra_path_length (the length).                                      *)
(***************************************************************************)
\* The adjacency entries of the graph decoded from data, in the order the
\* edge loop inserts them: networkx iterates neighbours in that order.
RECURSIVE AdjOrder(_, _, _)
AdjOrder(data, records, out) ==
    IF records = <<>> THEN out
    ELSE LET i    == Head(records)
             e    == IF KnownType(data.relationship_types, i[1])
                     THEN <<SecondLast(i), Last(i)>> ELSE <<i[1], i[2]>>
             seen == { out[j] : j \in Idx(out) }
             fwd  == IF e \in seen THEN out ELSE Append(out, e)
             both == IF data.directed \/ <<e[2], e[1]>> \in seen \/ e[1] = e[2]
                     THEN fwd ELSE Append(fwd, <<e[2], e[1]>>)
         IN  AdjOrder(data, Tail(records), both)

\* The keys of G._succ[v] (G._adj[v]) and of G._pred[v], in dict order.
RECURSIVE Column(_, _, _, _)
Column(ord, v, from, to) ==
    IF ord = <<>> THEN <<>>
    ELSE IF Head(ord)[from] = v
         THEN <<Head(ord)[to]>> \o Column(Tail(ord), v, from, to)
         ELSE Column(Tail(ord), v, from, to)

Succ(ord, v) == Column(ord, v, 1, 2)
Pred(ord, v) == Column(ord, v, 2, 1)

\* _weight_function(G, "weight"): data.get("weight", 1).
Weight(G, u, v) ==
    IF "weight" \in DOMAIN G.adj[<<u, v>>] THEN G.adj[<<u, v>>]["weight"] ELSE Num(1)

\* dict[key] = value.
Put(d, key, value) == [x \in (DOMAIN d) \cup {key} |-> IF x = key THEN value ELSE d[x]]

EmptyMap == [x \in {} |-> 0]

\* heappop on a heap of (distance, counter, vertex): the least distance,
\* and of equal distances the entry pushed first.
HeapMin(fringe) ==
    CHOOSE e \in fringe :
        \A f \in fringe : e.d < f.d \/ (e.d = f.d /\ e.c <= f.c)

\* _dijkstra_multisource, one source, with a target: the loop over the
\* neighbours u of the vertex v just settled.
RECURSIVE Relax(_, _, _, _)
Relax(G, v, us, st) ==
    IF us = <<>> \/ st.exc # "none" THEN st
    ELSE LET u    == Head(us)
             cost == Weight(G, v, u)
         IN  IF cost.k # "num" THEN [st EXCEPT !.exc = "TypeError"]
             ELSE LET vu_dist == st.dist[v] + cost.n IN
                  IF u \in DOMAIN st.dist
                  THEN IF vu_dist < st.dist[u]
                       THEN [st EXCEPT !.exc = "ValueError"]
                       ELSE Relax(G, v, Tail(us), st)
                  ELSE IF u \notin DOMAIN st.seen \/ vu_dist < st.seen[u]
                  THEN Relax(G, v, Tail(us),
                             [st EXCEPT !.seen = Put(st.seen, u, vu_dist),
                                        !.fringe = @ \cup {[d |-> vu_dist, c |-> st.c, v |-> u]},
                                        !.c = @ + 1])
                  ELSE Relax(G, v, Tail(us), st)

\* The while loop of _dijkstra_multisource: pop, settle, stop at the target.
RECURSIVE DijkstraLoop(_, _, _, _)
DijkstraLoop(G, ord, target, st) ==
    IF st.fringe = {} \/ st.exc # "none" THEN st
    ELSE LET e    == HeapMin(st.fringe)
             rest == [st EXCEPT !.fringe = @ \ {e}]
         IN  IF e.v \in DOMAIN st.dist THEN DijkstraLoop(G, ord, target, rest)
             ELSE LET settled == [rest EXCEPT !.dist = Put(rest.dist, e.v, e.d)]
                  IN  IF e.v = target THEN settled
                      ELSE DijkstraLoop(G, ord, target,
                                        Relax(G, e.v, Succ(ord, e.v), settled))

\* nx.shortest_path_length(G, source, target, weight="weight"):
\* [exc, length].
dijkstra_path_length(G, ord, source, target) ==
    IF source \notin DOMAIN G.node THEN [exc |-> "NodeNotFound", length |-> 0]
    ELSE IF source = target THEN [exc |-> "none", length |-> 0]
    ELSE LET st == DijkstraLoop(G, ord, target,
                       [dist |-> EmptyMap, seen |-> Put(EmptyMap, source, 0),
                        fringe |-> {[d |-> 0, c |-> 0, v |-> source]},
                        c |-> 1, exc |-> "none"])
         IN  IF st.exc # "none" THEN [exc |-> st.exc, length |-> 0]
             ELSE IF target \notin DOMAIN st.dist THEN [exc |-> "NetworkXNoPath", length |-> 0]
             ELSE [exc |-> "none", length |-> st.dist[target]]

\* bidirectional_dijkstra: side 1 searches forward from the source, side 2
\* backward from the target.  The loop over the neighbours w of the vertex v
\* just settled on a side.
RECURSIVE BiRelax(_, _, _, _, _)
BiRelax(G, side, v, ws, st) ==
    IF ws = <<>> \/ st.exc # "none" THEN st
    ELSE LET w    == Head(ws)
             cost == IF side = 1 THEN Weight(G, v, w) ELSE Weight(G, w, v)
         IN  IF cost.k # "num" THEN [st EXCEPT !.exc = "TypeError"]
             ELSE LET vwLength == st.dists[side][v] + cost.n IN
                  IF w \in DOMAIN st.dists[side]
                  THEN IF vwLength < st.dists[side][w]
                       THEN [st EXCEPT !.exc = "ValueError"]
                       ELSE BiRelax(G, side, v, Tail(ws), st)
                  ELSE IF w \notin DOMAIN st.seen[side] \/ vwLength < st.seen[side][w]
                  THEN LET pushed ==
                               [st EXCEPT
                                   !.seen[side] = Put(@, w, vwLength),
                                   !.fringe[side] = @ \cup {[d |-> vwLength, c |-> st.c, v |-> w]},
                                   !.c = @ + 1,
                                   !.paths[side] = Put(@, w, Append(st.paths[side][v], w))]
                           meets == w \in DOMAIN pushed.seen[1] /\ w \in DOMAIN pushed.seen[2]
                           totaldist == pushed.seen[1][w] + pushed.seen[2][w]
                           back  == pushed.paths[2][w]
                           revpath == [j \in 1..Len(back) |-> back[Len(back) + 1 - j]]
                       IN  IF meets /\ (pushed.finalpath = <<>> \/ pushed.finaldist > totaldist)
                           THEN BiRelax(G, side, v, Tail(ws),
                                        [pushed EXCEPT
                                            !.finaldist = totaldist,
                                            !.finalpath = pushed.paths[1][w] \o Tail(revpath)])
                           ELSE BiRelax(G, side, v, Tail(ws), pushed)
                  ELSE BiRelax(G, side, v, Tail(ws), st)

\* The while loop of bidirectional_dijkstra: the sides take turns; the
\* search ends when a vertex is settled on both sides.
RECURSIVE BiLoop(_, _, _)
BiLoop(G, ord, st) ==
    IF st.exc # "none" THEN st
    ELSE IF st.fringe[1] = {} \/ st.fringe[2] = {}
    THEN [st EXCEPT !.exc = "NetworkXNoPath"]
    ELSE LET side == 3 - st.dir
             e    == HeapMin(st.fringe[side])
             rest == [st EXCEPT !.dir = side, !.fringe[side] = @ \ {e}]
         IN  IF e.v \in DOMAIN st.dists[side] THEN BiLoop(G, ord, rest)
             ELSE LET settled == [rest EXCEPT !.dists[side] = Put(@, e.v, e.d)]
                      ws == IF side = 1 \/ ~G.directed THEN Succ(ord, e.v)
                            ELSE Pred(ord, e.v)
                  IN  IF e.v \in DOMAIN settled.dists[3 - side] THEN settled
                      ELSE BiLoop(G, ord, BiRelax(G, side, e.v, ws, settled))

\* nx.shortest_path(G, source, target, weight="weight"): [exc, path].
bidirectional_dijkstra(G, ord, source, target) ==
    IF source \notin DOMAIN G.node \/ target \notin DOMAIN G.node
    THEN [exc |-> "NodeNotFound", path |-> <<>>]
    ELSE IF source = target THEN [exc |-> "none", path |-> <<source>>]
    ELSE LET st == BiLoop(G, ord,
                       [dists |-> <<EmptyMap, EmptyMap>>,
                        seen |-> <<Put(EmptyMap, source, 0), Put(EmptyMap, target, 0)>>,
                        paths |-> << Put([x \in {} |-> <<>>], source, <<source>>),
                                     Put([x \in {} |-> <<>>], target, <<target>>) >>,
                        fringe |-> << {[d |-> 0, c |-> 0, v |-> source]},
                                      {[d |-> 0, c |-> 1, v |-> target]} >>,
                        c |-> 2, finalpath |-> <<>>, finaldist |-> 0,
                        dir |-> 2, exc |-> "none"])
         IN  [exc |-> st.exc, path |-> IF st.exc = "none" THEN st.finalpath ELSE <<>>]

\* find_shortest_path: (path, length, fig), (None, None, None) when there
\* is no path, (message, None, None) when a vertex is missing; any other
\* exception of the two searches leaves the function.
find_shortest_path(G, ord, source, destination) ==
    LET p == bidirectional_dijkstra(G, ord, source, destination)
        l == dijkstra_path_length(G, ord, source, destination)
        first == IF p.exc # "none" THEN p.exc ELSE l.exc
    IN  IF first = "none"
        THEN [exc |-> "none", kind |-> "path", path |-> p.path, length |-> l.length]
        ELSE IF first = "NetworkXNoPath"
        THEN [exc |-> "none", kind |-> "no path", path |-> <<>>, length |-> 0]
        ELSE IF first = "NodeNotFound"
        THEN [exc |-> "none", kind |-> "node not found", path |-> <<>>, length |-> 0]
        ELSE [exc |-> first, kind |-> "raised", path |-> <<>>, length |-> 0]

\* The snapshots searched: four parts and any of six relationships in
\* document order.  Route records carry a weight; a PartsToFacility record
\* carries a distance and no weight; two records give the edge P3 -> P2,
\* the later one overwriting the weight of the earlier.
PathRels ==
    << <<Str("Route"), Num(1), Str("P1"), Str("P2")>>,
       <<Str("Route"), Num(2), Str("P1"), Str("P3")>>,
       <<Str("Route"), Num(-5), Str("P3"), Str("P2")>>,
       <<Str("PartsToFacility"), Num(9), Str("P2"), Str("P4")>>,
       <<Str("Route"), Num(3), Str("P3"), Str("P2")>>,
       <<Str("Route"), Num(0), Str("P4"), Str("P1")>> >>

PathSnapshot(d, chosen) ==
    [QuerySnapshot(d, {}) EXCEPT
        !.relationship_types = [Route |-> <<"relationship_type", "weight">>,
                                PartsToFacility |-> <<"relationship_type", "distance">>],
        !.relationship_values = SelectSeq(PathRels, LAMBDA i : i \in chosen)]

PathSnapshots ==
    { PathSnapshot(d, chosen) :
        d \in BOOLEAN, chosen \in SUBSET { PathRels[j] : j \in Idx(PathRels) } }

InitPath ==
    /\ files \in { <<data>> : data \in PathSnapshots }
    /\ cache = <<>>
    /\ io = <<>>
    /\ ret = NoCall
    /\ graph = NoGraph
    /\ recent = <<>>

\* main.py lines 116-122: one shortest-path query on main's graph.
\* main.py lines 119-128, on what find_shortest_path returned: the path
\* and its length are written if both are true values, the warning if path
\* is None, the error otherwise.
Shown(res) ==
    IF res.exc # "none" THEN "raised"
    ELSE IF res.kind = "path" /\ res.path # <<>> /\ res.length # 0 THEN "path"
    ELSE IF res.kind = "no path" THEN "warning"
    ELSE "error"

ShortestPath ==
    /\ 0 \in CachedKeys(cache)
    /\ \E source \in NodeIds, destination \in NodeIds :
          LET res == find_shortest_path(graph, AdjOrder(files[1], files[1].relationship_values, <<>>),
                                        source, destination)
          IN  ret' = [op |-> "find_shortest_path", source |-> source,
                      destination |-> destination, exc |-> res.exc,
                      kind |-> res.kind, path |-> res.path, length |-> res.length,
                      shown |-> Shown(res)]
    /\ io' = <<>>
    /\ UNCHANGED <<files, cache, graph, recent>>

NextPath == Main \/ ShortestPath

SpecPath == InitPath /\ [][NextPath]_vars

(***************************************************************************)
(* pages/AcrossTime.py: the queries that read every snapshot file in turn. *)
(* Python floats are modelled as exact fractions [n, d] in lowest terms    *)
(* with d > 0; rounding is not modelled.                                   *)
(***************************************************************************)
Abs(x) == IF x < 0 THEN -x ELSE x

RECURSIVE Gcd(_, _)
Gcd(a, b) == IF b = 0 THEN a ELSE Gcd(b, a % b)

Frac(n, d) ==
    LET g == Gcd(Abs(n), Abs(d))
        sign == IF d < 0 THEN -1 ELSE 1
    IN  [n |-> sign * (n \div g), d |-> sign * (d \div g)]

FracOf(x) == [n |-> x, d |-> 1]
FAdd(a, b) == Frac(a.n * b.d + b.n * a.d, a.d * b.d)
FSub(a, b) == Frac(a.n * b.d - b.n * a.d, a.d * b.d)
FMul(a, b) == Frac(a.n * b.n, a.d * b.d)
FLess(a, b) == a.n * b.d < b.n * a.d

\* list.index(x): the 0-based position of the first element equal to x.
IndexOf(seq, x) == (CHOOSE j \in Idx(seq) : seq[j] = x /\ \A j2 \in 1..(j - 1) : seq[j2] # x) - 1

Contains(seq, x) == \E j \in Idx(seq) : seq[j] = x

\* node_type in data["node_values"] and data["node_values"][node_type].
HasBucket(data, node_type) == \E b \in Idx(data.node_values) : data.node_values[b].type = node_type
BucketOf(data, node_type) ==
    data.node_values[CHOOSE b \in Idx(data.node_values) : data.node_values[b].type = node_type].nodes

\* sum(values) of a list of numbers, as an integer.
RECURSIVE SumOf(_)
SumOf(values) == IF values = <<>> THEN 0 ELSE Head(values).n + SumOf(Tail(values))

\* sum(values) / len(values) dividing by the number of records less one.
MeanOverOneLess(values) == Frac(SumOf(values), IF Len(values) > 1 THEN Len(values) - 1 ELSE 1)

\* sum(values) / len(values).
Mean(values) == Frac(SumOf(values), Len(values))

\* What one pass over the files has gathered: the two lists, or the
\* exception that ended it.
NoSeries == [exc |-> "none", timestamps |-> <<>>, attribute_values |-> <<>>]

\* The list comprehension of track_attribute_over_time on one snapshot:
\* the attribute's position in the type's names, read from every record.
NodeValues(data, node_type, attribute) ==
    LET names == data.node_types[node_type]
        nodes == BucketOf(data, node_type)
    IN  IF ~Contains(names, attribute) THEN <<>>
        ELSE [j \in Idx(nodes) |-> nodes[j][IndexOf(names, attribute) + 1]]

\* The exception the comprehension or the mean raises on one snapshot.
NodeValuesExc(data, node_type, attribute) ==
    LET nodes == BucketOf(data, node_type) IN
    IF nodes = <<>> THEN "none"
    ELSE IF node_type \notin DOMAIN data.node_types THEN "KeyError"
    ELSE LET names == data.node_types[node_type] IN
         IF ~Contains(names, attribute) THEN "none"
         ELSE IF \E j \in Idx(nodes) : Len(nodes[j]) < IndexOf(names, attribute) + 1
         THEN "IndexError"
         ELSE IF \E j \in Idx(nodes) : nodes[j][IndexOf(names, attribute) + 1].k # "num"
         THEN "TypeError"
         ELSE "none"

\* The loop over the timestamps timestamp..len(files)-1 of
\* track_attribute_over_time (and of detect_anomalies).
RECURSIVE NodeTrend(_, _, _, _, _)
NodeTrend(fs, timestamp, node_type, attribute, out) ==
    IF timestamp >= Len(fs) \/ out.exc # "none" THEN out
    ELSE LET data == fs[timestamp + 1] IN
         IF "node_values" \notin DOMAIN data THEN [out EXCEPT !.exc = "KeyError"]
         ELSE IF ~HasBucket(data, node_type)
         THEN NodeTrend(fs, timestamp + 1, node_type, attribute, out)
         ELSE IF NodeValuesExc(data, node_type, attribute) # "none"
         THEN [out EXCEPT !.exc = NodeValuesExc(data, node_type, attribute)]
         ELSE LET values == NodeValues(data, node_type, attribute) IN
              NodeTrend(fs, timestamp + 1, node_type, attribute,
                        IF values = <<>> THEN out
                        ELSE [out EXCEPT !.timestamps = Append(@, timestamp),
                                         !.attribute_values = Append(@, Mean(values))])

track_attribute_over_time(node_type, attribute) ==
    NodeTrend(files, 0, node_type, attribute, NoSeries)

\* The snapshot files the trends are read from: NTrend timestamps, each
\* holding one of the documents below.
NTrend == 3

Offering(id, cost, demand) == <<Str("ProductOffering"), Num(cost), Num(demand), Str(id)>>
Part(id, cost)             == <<Str("Parts"), Num(cost), Str(id)>>
Shipment(cost, lead_time)  ==
    <<Str("SupplierToWarehouse"), Num(cost), Num(lead_time), Str("S1"), Str("W1")>>
Stocking(level)            == <<Str("WarehouseToParts"), Num(level), Str("W1"), Str("P1")>>

TrendTypes ==
    [ProductOffering |-> <<"node_type", "cost", "demand", "id">>,
     Parts |-> <<"node_type", "cost", "id">>]

TrendRelTypes ==
    [SupplierToWarehouse |-> <<"relationship_type", "transportation_cost", "lead_time">>,
     WarehouseToParts |-> <<"relationship_type", "inventory_level">>]

TrendDoc(node_types, node_values, relationship_types, relationship_values) ==
    [directed |-> TRUE, node_types |-> node_types, node_values |-> node_values,
     relationship_types |-> relationship_types,
     relationship_values |-> relationship_values]

\* Two offerings with demands 10 and 20; one offering with demand 30 whose
\* id is also the id of a part; an offering bucket without records; no
\* offering bucket (and no shipment record); offerings whose type lists no
\* demand (and shipments whose type lists no transportation_cost).
TrendDocs ==
    { TrendDoc(TrendTypes,
               <<Bucket("ProductOffering", <<Offering("PO1", 100, 10), Offering("PO2", 50, 20)>>),
                 Bucket("Parts", <<Part("P1", 7)>>)>>,
               TrendRelTypes, <<Shipment(4, 1), Stocking(5), Shipment(8, 3)>>),
      TrendDoc(TrendTypes,
               <<Bucket("ProductOffering", <<Offering("PO1", 100, 30)>>),
                 Bucket("Parts", <<Part("P1", 7), Part("PO1", 9)>>)>>,
               TrendRelTypes, <<Shipment(6, 2)>>),
      TrendDoc(TrendTypes,
               <<Bucket("ProductOffering", <<>>), Bucket("Parts", <<Part("P1", 7)>>)>>,
               TrendRelTypes, <<>>),
      TrendDoc(TrendTypes,
               <<Bucket("Parts", <<Part("P1", 7)>>)>>,
               TrendRelTypes, <<Stocking(5)>>),
      TrendDoc([TrendTypes EXCEPT !.ProductOffering = <<"node_type", "cost", "id">>],
               <<Bucket("ProductOffering", << <<Str("ProductOffering"), Num(100), Str("PO1")>> >>),
                 Bucket("Parts", <<Part("P1", 7)>>)>>,
               [TrendRelTypes EXCEPT !.SupplierToWarehouse = <<"relationship_type", "lead_time">>],
               << <<Str("SupplierToWarehouse"), Num(2), Str("S1"), Str("W1")>> >>) }

InitTrend ==
    /\ files \in [1..NTrend -> TrendDocs]
    /\ cache = <<>>
    /\ io = <<>>
    /\ ret = NoCall
    /\ graph = NoGraph
    /\ recent = <<>>

\* A pass that opens the files from the last timestamp to the first.
AllFilesBackwards == [j \in 1..Len(files) |-> Len(files) - j]

\* The files a pass over every timestamp opens.
AllFiles == [j \in 1..Len(files) |-> j - 1]

\* The node types and attributes the page offers, and a type no snapshot holds.
TrendNodeTypes == {"ProductOffering", "Parts", "Supplier"}
TrendAttributes == {"cost", "demand"}

TrackAttribute ==
    /\ \E node_type \in TrendNodeTypes, attribute \in TrendAttributes :
          LET res == track_attribute_over_time(node_type, attribute)
          IN  ret' = [op |-> "track_attribute_over_time", node_type |-> node_type,
                      attribute |-> attribute, exc |-> res.exc,
                      timestamps |-> res.timestamps,
                      attribute_values |-> res.attribute_values]
    /\ io' = AllFiles
    /\ UNCHANGED <<files, cache, graph, recent>>

\* The scan of one bucket's records for node_id: the first record holding
\* node_id among its values contributes the attribute's value (if the type
\* names the attribute) and ends the scan of that bucket.
FirstHolding(nodes, node_id) ==
    CHOOSE j \in Idx(nodes) :
        /\ Contains(nodes[j], Str(node_id))
        /\ \A j2 \in 1..(j - 1) : ~Contains(nodes[j2], Str(node_id))

RECURSIVE ScanBuckets(_, _, _, _, _, _)
ScanBuckets(data, buckets, timestamp, node_id, attribute, out) ==
    IF buckets = <<>> THEN out
    ELSE LET nodes == Head(buckets).nodes
             node_attributes == data.node_types[Head(buckets).type]
             rest == Tail(buckets)
         IN  IF ~\E j \in Idx(nodes) : Contains(nodes[j], Str(node_id))
             THEN ScanBuckets(data, rest, timestamp, node_id, attribute, out)
             ELSE IF ~Contains(node_attributes, attribute)
             THEN ScanBuckets(data, rest, timestamp, node_id, attribute, out)
             ELSE ScanBuckets(data, rest, timestamp, node_id, attribute,
                      [out EXCEPT
                          !.attribute_found = TRUE,
                          !.timestamps = Append(@, timestamp),
                          !.attribute_values =
                              Append(@, nodes[FirstHolding(nodes, node_id)]
                                             [IndexOf(node_attributes, attribute) + 1])])

RECURSIVE NodeSeries(_, _, _, _, _)
NodeSeries(fs, timestamp, node_id, attribute, out) ==
    IF timestamp >= Len(fs) THEN out
    ELSE NodeSeries(fs, timestamp + 1, node_id, attribute,
                    ScanBuckets(fs[timestamp + 1], fs[timestamp + 1].node_values,
                                timestamp, node_id, attribute, out))

\* plot_attribute_for_node_streamlit: the two lists plotted, or the
\* "not found" error message when no snapshot gave a value.
plot_attribute_for_node_streamlit(node_id, attribute) ==
    NodeSeries(files, 0, node_id, attribute,
               [attribute_found |-> FALSE, timestamps |-> <<>>, attribute_values |-> <<>>])

\* The node ids the page offers.
TrendNodeIds == {"PO1", "PO2", "P1"}

PlotNode ==
    /\ \E node_id \in TrendNodeIds, attribute \in TrendAttributes :
          LET res == plot_attribute_for_node_streamlit(node_id, attribute)
          IN  ret' = [op |-> "plot_attribute_for_node_streamlit", node_id |-> node_id,
                      attribute |-> attribute, exc |-> "none",
                      attribute_found |-> res.attribute_found,
                      timestamps |-> res.timestamps,
                      attribute_values |-> res.attribute_values]
    /\ io' = AllFiles
    /\ UNCHANGED <<files, cache, graph, recent>>

\* The records of relationship_values whose first element is edge_type.
OfType(data, edge_type) ==
    SelectSeq(data.relationship_values, LAMBDA edge : edge[1] = Str(edge_type))

\* The comprehension reading the element after the attribute's position,
\* as if the names did not count the type name.
EdgeValuesAfterTypeName(data, edge_type, attribute) ==
    LET names == data.relationship_types[edge_type]
        edges == OfType(data, edge_type)
    IN  IF ~Contains(names, attribute) THEN <<>>
        ELSE [j \in Idx(edges) |-> edges[j][IndexOf(names, attribute) + 2]]

\* The list comprehension of track_edge_attribute_over_time_streamlit on
\* one snapshot: edge[names.index(attribute)] of every record of the type.
EdgeValues(data, edge_type, attribute) ==
    LET names == data.relationship_types[edge_type]
        edges == OfType(data, edge_type)
    IN  IF ~Contains(names, attribute) THEN <<>>
        ELSE [j \in Idx(edges) |-> edges[j][IndexOf(names, attribute) + 1]]

RECURSIVE EdgeTrend(_, _, _, _, _)
EdgeTrend(fs, timestamp, edge_type, attribute, out) ==
    IF timestamp >= Len(fs) \/ out.exc # "none" THEN out
    ELSE LET data == fs[timestamp + 1] IN
         IF edge_type \notin DOMAIN data.relationship_types
         THEN EdgeTrend(fs, timestamp + 1, edge_type, attribute, out)
         ELSE LET values == EdgeValues(data, edge_type, attribute) IN
              IF \E j \in Idx(values) : values[j].k # "num"
              THEN [out EXCEPT !.exc = "TypeError"]
              ELSE EdgeTrend(fs, timestamp + 1, edge_type, attribute,
                        IF values = <<>> THEN out
                        ELSE [out EXCEPT !.timestamps = Append(@, timestamp),
                                         !.attribute_values = Append(@, Mean(values))])

track_edge_attribute_over_time_streamlit(edge_type, attribute) ==
    EdgeTrend(files, 0, edge_type, attribute, NoSeries)

\* The edge types and attributes the page offers.
TrendEdgeTypes == {"SupplierToWarehouse", "WarehouseToParts", "PartsToFacility"}
TrendEdgeAttributes == {"transportation_cost", "lead_time", "inventory_level"}

TrackEdgeAttribute ==
    /\ \E edge_type \in TrendEdgeTypes, attribute \in TrendEdgeAttributes :
          LET res == track_edge_attribute_over_time_streamlit(edge_type, attribute)
          IN  ret' = [op |-> "track_edge_attribute_over_time_streamlit",
                      edge_type |-> edge_type, attribute |-> attribute,
                      exc |-> res.exc, timestamps |-> res.timestamps,
                      attribute_values |-> res.attribute_values]
    /\ io' = AllFiles
    /\ UNCHANGED <<files, cache, graph, recent>>

\* The timestamps of a trend whose mean is (peak) or is not (off-peak) at
\* least the threshold, with strictly above in place of at least.
PeriodsStrictlyAbove(res, threshold, peak) ==
    SelectSeq([j \in Idx(res.timestamps) |-> j],
              LAMBDA j : FLess(threshold, res.attribute_values[j]) = peak)

\* avg_value >= threshold appends to peak_periods, else to off_peak_periods;
\* the positions of the trend kept.
Periods(res, threshold, peak) ==
    SelectSeq([j \in Idx(res.timestamps) |-> j],
              LAMBDA j : (~FLess(res.attribute_values[j], threshold)) = peak)

\* detect_peak_and_off_peak_periods: the trend loop of
\* track_attribute_over_time with the classification inside it.
detect_peak_and_off_peak_periods(node_type, attribute, threshold) ==
    LET res == NodeTrend(files, 0, node_type, attribute, NoSeries)
        At(positions) == [j \in Idx(positions) |-> res.timestamps[positions[j]]]
    IN  [exc |-> res.exc, timestamps |-> res.timestamps,
         attribute_values |-> res.attribute_values,
         peak_periods |-> At(Periods(res, threshold, TRUE)),
         off_peak_periods |-> At(Periods(res, threshold, FALSE))]

\* The thresholds tried: a mean of the snapshots, and a value between two.
PeakThresholds == { FracOf(15), FracOf(20) }

DetectPeaks ==
    /\ \E node_type \in TrendNodeTypes, attribute \in TrendAttributes,
          threshold \in PeakThresholds :
          LET res == detect_peak_and_off_peak_periods(node_type, attribute, threshold)
          IN  ret' = [op |-> "detect_peak_and_off_peak_periods", node_type |-> node_type,
                      attribute |-> attribute, threshold |-> threshold, exc |-> res.exc,
                      timestamps |-> res.timestamps,
                      attribute_values |-> res.attribute_values,
                      peak_periods |-> res.peak_periods,
                      off_peak_periods |-> res.off_peak_periods]
    /\ io' = AllFiles
    /\ UNCHANGED <<files, cache, graph, recent>>

NextTrend == TrackAttribute \/ PlotNode \/ TrackEdgeAttribute \/ DetectPeaks

SpecTrend == InitTrend /\ [][NextTrend]_vars

(***************************************************************************)
(* pages/AcrossTime.py: detect_anomalies.                                  *)
(***************************************************************************)
NAnomaly == 4

RECURSIVE FSum(_)
FSum(values) == IF values = <<>> THEN FracOf(0) ELSE FAdd(Head(values), FSum(Tail(values)))

\* np.mean(values) of a list that is not empty.
NpMean(values) == FMul(FSum(values), Frac(1, Len(values)))

Squared(x) == FMul(x, x)

SquaredDeviationsFrom(values, mean_value) ==
    [j \in Idx(values) |-> Squared(FSub(values[j], mean_value))]

SquaredDeviations(values) == SquaredDeviationsFrom(values, NpMean(values))

\* The sample variance: the squared deviations over one less than their number.
NpVarSample(values) ==
    FMul(FSum(SquaredDeviations(values)), Frac(1, IF Len(values) > 1 THEN Len(values) - 1 ELSE 1))

\* np.std(values) squared: the population variance (ddof = 0).
NpVar(values) == FMul(FSum(SquaredDeviations(values)), Frac(1, Len(values)))

\* abs((val - mean_value) / std_dev) > z_threshold, for z_threshold >= 0,
\* on the squares: (val - mean_value)^2 > z_threshold^2 * std_dev^2.  With
\* std_dev = 0 the quotient is nan and no comparison with nan is true.
ScoreAbove(val, mean_value, variance, z_threshold) ==
    /\ variance.n # 0
    /\ FLess(FMul(Squared(z_threshold), variance), Squared(FSub(val, mean_value)))

\* [i for i, score in enumerate(z_scores) if abs(score) > z_threshold].
RECURSIVE Anomalies(_, _, _, _, _)
Anomalies(values, i, mean_value, variance, z_threshold) ==
    IF i >= Len(values) THEN <<>>
    ELSE (IF ScoreAbove(values[i + 1], mean_value, variance, z_threshold)
          THEN <<i>> ELSE <<>>)
         \o Anomalies(values, i + 1, mean_value, variance, z_threshold)

\* detect_anomalies: the trend, the indices flagged, and whether the scores
\* are nan (an empty trend or a zero deviation; numpy warns and goes on).
detect_anomalies(node_type, attribute, z_threshold) ==
    LET trend == NodeTrend(files, 0, node_type, attribute, NoSeries)
        values == trend.attribute_values
    IN  IF trend.exc # "none"
        THEN [exc |-> trend.exc, timestamps |-> <<>>, attribute_values |-> <<>>,
              anomalies |-> <<>>, nan |-> FALSE]
        ELSE [exc |-> "none", timestamps |-> trend.timestamps,
              attribute_values |-> values,
              anomalies |-> IF values = <<>> THEN <<>>
                            ELSE Anomalies(values, 0, NpMean(values), NpVar(values), z_threshold),
              nan |-> values = <<>> \/ NpVar(values).n = 0]

Group(id, revenue) == <<Str("BusinessGroup"), Num(revenue), Str(id)>>

\* The snapshots of the anomaly search: business groups with revenue 10,
\* with revenue 100, with revenues 10 and 20, and none.
AnomalyDocs ==
    { TrendDoc([BusinessGroup |-> <<"node_type", "revenue", "id">>],
               <<Bucket("BusinessGroup", groups)>>, TrendRelTypes, <<>>) :
        groups \in { <<Group("BG_001", 10)>>, <<Group("BG_001", 100)>>,
                     <<Group("BG_001", 10), Group("BG_002", 20)>>, <<>> } }

InitAnomaly ==
    /\ files \in [1..NAnomaly -> AnomalyDocs]
    /\ cache = <<>>
    /\ io = <<>>
    /\ ret = NoCall
    /\ graph = NoGraph
    /\ recent = <<>>

\* The thresholds entered: 1.0, 1.1, 1.5 and 2.0.
Thresholds == {Frac(1, 1), Frac(11, 10), Frac(3, 2), Frac(2, 1)}

\* The node type and attribute selected on the page, among those it offers.
Selections == { <<"BusinessGroup", "revenue">>, <<"ProductFamily", "revenue">> }

\* main: the selectboxes and the threshold are read, then
\* detect_anomalies("BusinessGroup", "revenue", z_threshold) is called.
DetectAnomalies ==
    /\ \E z_threshold \in Thresholds, selection \in Selections :
          LET res == detect_anomalies("BusinessGroup", "revenue", z_threshold)
          IN  ret' = [op |-> "detect_anomalies", z_threshold |-> z_threshold,
                      node_type |-> selection[1], attribute |-> selection[2],
                      exc |-> res.exc, timestamps |-> res.timestamps,
                      attribute_values |-> res.attribute_values,
                      anomalies |-> res.anomalies, nan |-> res.nan]
    /\ io' = AllFiles
    /\ UNCHANGED <<files, cache, graph, recent>>

NextAnomaly == DetectAnomalies

SpecAnomaly == InitAnomaly /\ [][NextAnomaly]_vars

(***************************************************************************)
(* product_offering_queries.py                                             *)
(***************************************************************************)
\* attrs.get(key) == value on a vertex and on an edge; a vertex that is
\* not in the graph has no attributes, and has_edge is False for it.
NodeHas(G, n, key, value) ==
    n \in DOMAIN G.node /\ key \in DOMAIN G.node[n] /\ G.node[n][key] = value

has_edge(G, u, v) == <<u, v>> \in DOMAIN G.adj

EdgeHas(G, u, v, key, value) ==
    key \in DOMAIN G.adj[<<u, v>>] /\ G.adj[<<u, v>>][key] = value

\* The inner loop with has_edge(facility, part): the edge taken backwards.
PartsOutOf(G, facility) ==
    { part \in DOMAIN G.node :
        /\ NodeHas(G, part, "node_type", Str("Parts"))
        /\ has_edge(G, facility, part)
        /\ EdgeHas(G, facility, part, "relationship_type", Str("PartsToFacility")) }

\* The inner loop: the parts with a PartsToFacility edge into the facility.
PartsInto(G, facility) ==
    { part \in DOMAIN G.node :
        /\ NodeHas(G, part, "node_type", Str("Parts"))
        /\ has_edge(G, part, facility)
        /\ EdgeHas(G, part, facility, "relationship_type", Str("PartsToFacility")) }

\* The outer loop: the facilities with a FacilityToProductOfferings edge
\* into the product offering.
FacilitiesFor(G, product_offering_id) ==
    { facility \in DOMAIN G.node :
        /\ NodeHas(G, facility, "node_type", Str("Facility"))
        /\ has_edge(G, facility, product_offering_id)
        /\ EdgeHas(G, facility, product_offering_id, "relationship_type",
                   Str("FacilityToProductOfferings")) }

\* list(set): the elements, each once, in an order the claims do not use;
\* len is the length of the list.
ListOfSet(S) == [items |-> S, len |-> Cardinality(S)]

query_parts_for_product_offering(G, product_offering_id) ==
    ListOfSet(UNION { PartsInto(G, facility) : facility \in FacilitiesFor(G, product_offering_id) })

\* attrs.get("cost", float("inf")): a number, or infinity.
Inf == [k |-> "inf", s |-> "", n |-> 0]

Get(attrs, key, default) == IF key \in DOMAIN attrs THEN attrs[key] ELSE default

\* a <= b on floats, infinity included.
LessEq(a, b) == b.k = "inf" \/ (a.k = "num" /\ a.n <= b.n)

\* The test with cost strictly below the threshold.
ProfitableBelow(making_cost, demand, cost_threshold, demand_threshold) ==
    /\ LessEq(making_cost, cost_threshold) /\ making_cost # cost_threshold
    /\ LessEq(demand_threshold, demand)

\* making_cost <= cost_threshold and demand >= demand_threshold.
Profitable(making_cost, demand, cost_threshold, demand_threshold) ==
    LessEq(making_cost, cost_threshold) /\ LessEq(demand_threshold, demand)

\* query_profitable_products: one (node, making_cost, demand) per vertex
\* that passes, each vertex visited once.
query_profitable_products(G, cost_threshold, demand_threshold) ==
    LET passing ==
            { node \in DOMAIN G.node :
                /\ NodeHas(G, node, "node_type", Str("ProductOffering"))
                /\ Profitable(Get(G.node[node], "cost", Inf),
                              Get(G.node[node], "demand", Num(0)),
                              cost_threshold, demand_threshold) }
    IN  [items |-> { <<node, Get(G.node[node], "cost", Inf),
                       Get(G.node[node], "demand", Num(0))>> : node \in passing },
         len |-> Cardinality(passing)]

\* The snapshots of the product-offering queries: two facilities, two
\* parts and two product offerings.  The relationships are any of seven in
\* document order: facilities into PO1, parts into facilities (P1 into
\* both), a PartsToFacility record from a facility to a part, and a
\* FacilityToProductOfferings record from a part.
OfferingRels ==
    << <<Str("FacilityToProductOfferings"), Num(3), Str("F1"), Str("PO1")>>,
       <<Str("FacilityToProductOfferings"), Num(3), Str("F2"), Str("PO1")>>,
       <<Str("PartsToFacility"), Num(2), Str("P1"), Str("F1")>>,
       <<Str("PartsToFacility"), Num(2), Str("P1"), Str("F2")>>,
       <<Str("PartsToFacility"), Num(2), Str("P2"), Str("F2")>>,
       <<Str("PartsToFacility"), Num(2), Str("F1"), Str("P2")>>,
       <<Str("FacilityToProductOfferings"), Num(3), Str("P2"), Str("PO1")>> >>

\* The names of a product offering: cost and demand, demand alone, cost alone.
OfferingNames ==
    { <<"node_type", "cost", "demand", "id">>, <<"node_type", "demand", "id">>,
      <<"node_type", "cost", "id">> }

\* A product-offering record under the names.
OfferingRec(names, id, cost, demand) ==
    [j \in Idx(names) |->
        IF names[j] = "node_type" THEN Str("ProductOffering")
        ELSE IF names[j] = "cost" THEN Num(cost)
        ELSE IF names[j] = "demand" THEN Num(demand)
        ELSE Str(id)]

\* PO1 costs 100 with demand 10; PO2 is one of these (cost, demand).
SecondOffering == { <<101, 10>>, <<100, 9>>, <<50, 20>> }

OfferingSnapshot(d, chosen, names, second) ==
    [directed |-> d,
     node_types |-> [Facility |-> <<"node_type", "name", "id">>,
                     Parts |-> <<"node_type", "name", "id">>,
                     ProductOffering |-> names],
     node_values |->
        <<Bucket("Facility", << <<Str("Facility"), Str("plant"), Str("F1")>>,
                                <<Str("Facility"), Str("mill"), Str("F2")>> >>),
          Bucket("Parts", << <<Str("Parts"), Str("bolt"), Str("P1")>>,
                             <<Str("Parts"), Str("nut"), Str("P2")>> >>),
          Bucket("ProductOffering",
                 <<OfferingRec(names, "PO1", 100, 10),
                   OfferingRec(names, "PO2", second[1], second[2])>>)>>,
     relationship_types |->
        [FacilityToProductOfferings |-> <<"relationship_type", "product_cost">>,
         PartsToFacility |-> <<"relationship_type", "quantity">>],
     relationship_values |-> SelectSeq(OfferingRels, LAMBDA i : i \in chosen)]

OfferingSnapshots ==
    { OfferingSnapshot(d, chosen, <<"node_type", "cost", "demand", "id">>, <<50, 20>>) :
        d \in BOOLEAN, chosen \in SUBSET { OfferingRels[j] : j \in Idx(OfferingRels) } }
    \cup { OfferingSnapshot(d, {OfferingRels[1], OfferingRels[3]}, names, second) :
             d \in BOOLEAN, names \in OfferingNames, second \in SecondOffering }

InitOffering ==
    /\ files \in { <<data>> : data \in OfferingSnapshots }
    /\ cache = <<>>
    /\ io = <<>>
    /\ ret = NoCall
    /\ graph = NoGraph
    /\ recent = <<>>

\* The ids entered: the two offerings, and an id no snapshot holds.
OfferingIds == { Str("PO1"), Str("PO2"), Str("PO_001") }

\* main.py lines 159-162.
PartsQuery ==
    /\ 0 \in CachedKeys(cache)
    /\ \E product_offering_id \in OfferingIds :
          ret' = [op |-> "query_parts_for_product_offering",
                  product_offering_id |-> product_offering_id, exc |-> "none",
                  parts |-> query_parts_for_product_offering(graph, product_offering_id)]
    /\ io' = <<>>
    /\ UNCHANGED <<files, cache, graph, recent>>

\* The thresholds entered.
CostThresholds == { Num(50), Num(100) }
DemandThresholds == { Num(0), Num(10) }

\* main.py lines 169-174.
ProfitableQuery ==
    /\ 0 \in CachedKeys(cache)
    /\ \E cost_threshold \in CostThresholds, demand_threshold \in DemandThresholds :
          ret' = [op |-> "query_profitable_products",
                  cost_threshold |-> cost_threshold,
                  demand_threshold |-> demand_threshold, exc |-> "none",
                  profitable_products |->
                      query_profitable_products(graph, cost_threshold, demand_threshold)]
    /\ io' = <<>>
    /\ UNCHANGED <<files, cache, graph, recent>>

NextOffering == Main \/ PartsQuery \/ ProfitableQuery

SpecOffering == InitOffering /\ [][NextOffering]_vars

(***************************************************************************)
(* query_suppliers_for_part_via_warehouse: pages/Parts.py (on the graph of *)
(* a timestamp, by vertex type), pages/Supplier Based.py and               *)
(* pages/Type2.py (the same code, by relationship type) and their _json    *)
(* variant (on the snapshot document).  A result is [kind, items, len]:    *)
(* the supplier ids returned and the number of entries returned.           *)
(***************************************************************************)
Entries(kind, items, len) == [exc |-> "none", kind |-> kind, items |-> items, len |-> len]

\* pages/Parts.py: a row is appended for every (warehouse, supplier) pair
\* of predecessors; a message is returned when there is none.
SuppliersByNodeType(G, part_id) ==
    IF part_id \notin DOMAIN G.node THEN Entries("part not found", {}, 0)
    ELSE IF ~G.directed THEN [Entries("raised", {}, 0) EXCEPT !.exc = "AttributeError"]
    ELSE LET rows == { row \in (DOMAIN G.adj) \X (DOMAIN G.node) :
                         /\ row[1][2] = part_id
                         /\ NodeHas(G, row[1][1], "node_type", Str("WAREHOUSE"))
                         /\ has_edge(G, row[2], row[1][1])
                         /\ NodeHas(G, row[2], "node_type", Str("SUPPLIERS")) }
         IN  IF rows = {} THEN Entries("no suppliers", {}, 0)
             ELSE Entries("rows", { row[2] : row \in rows }, Cardinality(rows))

\* G.in_edges(n, data=True) filtered by relationship_type: the sources.
SourcesInto(G, n, type) ==
    { s \in DOMAIN G.node :
        has_edge(G, s, n) /\ EdgeHas(G, s, n, "relationship_type", Str(type)) }

\* pages/Supplier Based.py and pages/Type2.py: the suppliers are gathered
\* in a set.
SuppliersByEdgeType(G, part_id) ==
    IF ~G.directed THEN [Entries("raised", {}, 0) EXCEPT !.exc = "AttributeError"]
    ELSE LET warehouses_with_part == SourcesInto(G, part_id, "WarehouseToParts")
             suppliers == UNION { SourcesInto(G, warehouse, "SupplierToWarehouse") :
                                    warehouse \in warehouses_with_part }
         IN  Entries("list", suppliers, Cardinality(suppliers))

\* The _json variant: the same two steps on the relationship records.
SuppliersByRecords(json_graph, part_id) ==
    LET edges == json_graph.relationship_values
        warehouses == { SecondLast(edges[j]) : j \in { j \in Idx(edges) :
                          edges[j][1] = Str("WarehouseToParts") /\ Last(edges[j]) = part_id } }
        suppliers == { SecondLast(edges[j]) : j \in { j \in Idx(edges) :
                          /\ edges[j][1] = Str("SupplierToWarehouse")
                          /\ Last(edges[j]) \in warehouses } }
    IN  Entries("list", suppliers, Cardinality(suppliers))

\* The snapshots: two suppliers, two warehouses, one part, and any of five
\* relationships in document order; S1 can supply both warehouses.
SupplierRels ==
    << <<Str("SupplierToWarehouse"), Num(4), Str("S1"), Str("W1")>>,
       <<Str("SupplierToWarehouse"), Num(4), Str("S1"), Str("W2")>>,
       <<Str("SupplierToWarehouse"), Num(4), Str("S2"), Str("W2")>>,
       <<Str("WarehouseToParts"), Num(5), Str("W1"), Str("P1")>>,
       <<Str("WarehouseToParts"), Num(5), Str("W2"), Str("P1")>> >>

Located(type, id) == <<Str(type), Str("Pune"), Str(id)>>

SupplierSnapshot(d, chosen) ==
    [directed |-> d,
     node_types |-> [SUPPLIERS |-> <<"node_type", "location", "id">>,
                     WAREHOUSE |-> <<"node_type", "location", "id">>,
                     PARTS |-> <<"node_type", "location", "id">>],
     node_values |->
        <<Bucket("SUPPLIERS", <<Located("SUPPLIERS", "S1"), Located("SUPPLIERS", "S2")>>),
          Bucket("WAREHOUSE", <<Located("WAREHOUSE", "W1"), Located("WAREHOUSE", "W2")>>),
          Bucket("PARTS", <<Located("PARTS", "P1")>>)>>,
     relationship_types |->
        [SupplierToWarehouse |-> <<"relationship_type", "transportation_cost">>,
         WarehouseToParts |-> <<"relationship_type", "inventory_level">>],
     relationship_values |-> SelectSeq(SupplierRels, LAMBDA i : i \in chosen)]

SupplierSnapshots ==
    { SupplierSnapshot(d, chosen) :
        d \in BOOLEAN, chosen \in SUBSET { SupplierRels[j] : j \in Idx(SupplierRels) } }

InitSuppliers ==
    /\ files \in { <<data>> : data \in SupplierSnapshots }
    /\ cache = <<>>
    /\ io = <<>>
    /\ ret = NoCall
    /\ graph = NoGraph
    /\ recent = <<>>

\* The part ids offered, and an id no snapshot holds.
PartIds == { Str("P1"), Str("P_404") }

SuppliersResult(impl, part_id, res) ==
    [op |-> "query_suppliers_for_part_via_warehouse", impl |-> impl,
     part_id |-> part_id, exc |-> res.exc, kind |-> res.kind,
     items |-> res.items, len |-> res.len]

\* pages/Parts.py: the query loads the graph of the timestamp itself; the
\* page has loaded it before, so the cache serves it.
SuppliersOnPartsPage ==
    /\ 0 \in CachedKeys(cache)
    /\ \E part_id \in PartIds :
          ret' = SuppliersResult("Parts.py", part_id,
                                 SuppliersByNodeType(Entry(cache, 0).value, part_id))
    /\ cache' = Touch(cache, 0)
    /\ recent' = Append(Without(recent, 0), 0)
    /\ io' = <<>>
    /\ UNCHANGED <<files, graph>>

\* pages/Supplier Based.py and pages/Type2.py, on the page's graph.
SuppliersOnSupplierPage ==
    /\ 0 \in CachedKeys(cache)
    /\ \E part_id \in PartIds :
          ret' = SuppliersResult("Supplier Based.py", part_id,
                                 SuppliersByEdgeType(graph, part_id))
    /\ io' = <<>>
    /\ UNCHANGED <<files, cache, graph, recent>>

\* The _json variant, on the document of the page's timestamp.
SuppliersOnDocument ==
    /\ 0 \in CachedKeys(cache)
    /\ \E part_id \in PartIds :
          ret' = SuppliersResult("json", part_id, SuppliersByRecords(files[1], part_id))
    /\ io' = <<0>>
    /\ UNCHANGED <<files, cache, graph, recent>>

NextSuppliers ==
    Main \/ SuppliersOnPartsPage \/ SuppliersOnSupplierPage \/ SuppliersOnDocument

SpecSuppliers == InitSuppliers /\ [][NextSuppliers]_vars

(***************************************************************************)
(* pages/Parts.py and pages/Supplier Based.py: the queries on the dates    *)
(* of parts.  A date string is a string value; datetime.strptime(s,        *)
(* "%Y-%m-%d") gives the day (the proleptic ordinal) of the strings that   *)
(* follow the format and raises ValueError on the others.                  *)
(***************************************************************************)
Calendar ==
    [x \in {"2024-01-01", "2024-02-01", "2024-03-01", "2024-12-31", "2025-01-01",
            "1970-01-01", "9999-12-31"} |->
        CASE x = "2024-01-01" -> 738886
          [] x = "2024-02-01" -> 738917
          [] x = "2024-03-01" -> 738946
          [] x = "2024-12-31" -> 739251
          [] x = "2025-01-01" -> 739252
          [] x = "1970-01-01" -> 719163
          [] x = "9999-12-31" -> 3652059]

Parses(value) == value.k = "str" /\ value.s \in DOMAIN Calendar
strptime(value) == Calendar[value.s]

\* Python truth of an attribute value: a non-empty string, a non-zero number.
Truthy(value) == IF value.k = "str" THEN value.s # "" ELSE value.n # 0

\* The loop of query_valid_parts_nx over graph.nodes(data=True), the
\* query dates parsed.
ValidNodes(G, start_date, end_date) ==
    { node \in DOMAIN G.node :
        LET valid_from_str == Get(G.node[node], "valid_from", Str(""))
            valid_till_str == Get(G.node[node], "valid_till", Str(""))
        IN  /\ Truthy(valid_from_str) /\ Truthy(valid_till_str)
            /\ Parses(valid_from_str) /\ Parses(valid_till_str)
            /\ strptime(valid_from_str) <= end_date
            /\ strptime(valid_till_str) >= start_date }

\* The vertices the loop warns about and skips.
SkippedNodes(G) ==
    { node \in DOMAIN G.node :
        LET valid_from_str == Get(G.node[node], "valid_from", Str(""))
            valid_till_str == Get(G.node[node], "valid_till", Str(""))
        IN  /\ Truthy(valid_from_str) /\ Truthy(valid_till_str)
            /\ ~(Parses(valid_from_str) /\ Parses(valid_till_str)) }

query_valid_parts_nx(G, start_date, end_date) ==
    IF ~(Parses(start_date) /\ Parses(end_date))
    THEN [items |-> {}, len |-> 0, skipped |-> {}, parsed |-> FALSE]
    ELSE LET found == ValidNodes(G, strptime(start_date), strptime(end_date))
         IN  [items |-> found, len |-> Cardinality(found),
              skipped |-> SkippedNodes(G), parsed |-> TRUE]

\* expected_life with an unparseable date counted as no days at all.
expected_lifeZeroOnError(valid_from, valid_till) ==
    IF Parses(valid_from) /\ Parses(valid_till)
    THEN Num(strptime(valid_till) - strptime(valid_from))
    ELSE Num(0)

\* (valid_till_date - valid_from_date).days, or float('inf') on ValueError.
expected_life(valid_from, valid_till) ==
    IF Parses(valid_from) /\ Parses(valid_till)
    THEN Num(strptime(valid_till) - strptime(valid_from))
    ELSE Inf

bottleneck_parts_temporal(G, importance_threshold, expected_life_threshold) ==
    LET importance(node) == Get(G.node[node], "importance_factor", Num(0))
        life(node) == expected_life(Get(G.node[node], "valid_from", Str("1970-01-01")),
                                    Get(G.node[node], "valid_till", Str("9999-12-31")))
        rows == { node \in DOMAIN G.node :
                    /\ NodeHas(G, node, "node_type", Str("PARTS"))
                    /\ LessEq(importance_threshold, importance(node))
                    /\ LessEq(life(node), expected_life_threshold) }
    IN  [items |-> { <<node, importance(node), life(node)>> : node \in rows },
         len |-> Cardinality(rows)]

\* The snapshots: part P1 with any importance and dates, part P2 valid for
\* sixty days, and a warehouse that may carry dates of its own; the parts
\* may lack valid_till.
DateStrings == { "2024-01-01", "2024-03-01", "01/02/2024", "" }

PartNames ==
    { <<"node_type", "importance_factor", "valid_from", "valid_till", "id">>,
      <<"node_type", "importance_factor", "valid_from", "id">> }

PartRow(names, importance, from, till, id) ==
    IF Len(names) = 5
    THEN <<Str("PARTS"), Num(importance), Str(from), Str(till), Str(id)>>
    ELSE <<Str("PARTS"), Num(importance), Str(from), Str(id)>>

PartsSnapshot(d, names, importance, from, till, dated) ==
    [directed |-> d,
     node_types |-> [PARTS |-> names,
                     WAREHOUSE |-> IF dated
                                   THEN <<"node_type", "valid_from", "valid_till", "id">>
                                   ELSE <<"node_type", "location", "capacity", "id">>],
     node_values |->
        <<Bucket("PARTS", <<PartRow(names, importance, from, till, "P1"),
                            PartRow(names, 1, "2024-01-01", "2024-03-01", "P2")>>),
          Bucket("WAREHOUSE",
                 <<IF dated
                   THEN <<Str("WAREHOUSE"), Str("2024-01-01"), Str("2025-01-01"), Str("W1")>>
                   ELSE <<Str("WAREHOUSE"), Str("Pune"), Num(500), Str("W1")>> >>)>>,
     relationship_types |-> EmptyDict,
     relationship_values |-> <<>>]

PartsSnapshots ==
    { PartsSnapshot(d, names, importance, from, till, dated) :
        d \in BOOLEAN, names \in PartNames, importance \in {0, 1},
        from \in DateStrings, till \in DateStrings, dated \in BOOLEAN }

InitParts ==
    /\ files \in { <<data>> : data \in PartsSnapshots }
    /\ cache = <<>>
    /\ io = <<>>
    /\ ret = NoCall
    /\ graph = NoGraph
    /\ recent = <<>>

\* The dates entered, as strings; the last start date is no date.
DateRanges ==
    { <<"2024-02-01", "2024-12-31">>, <<"2025-01-01", "2025-01-01">>,
      <<"2024-13-01", "2024-12-31">> }

ValidPartsResult(impl, range, res) ==
    [op |-> "query_valid_parts_nx", impl |-> impl, exc |-> "none",
     start_date |-> range[1], end_date |-> range[2],
     items |-> res.items, len |-> res.len, skipped |-> res.skipped,
     parsed |-> res.parsed]

\* pages/Parts.py: the query loads the graph of the timestamp, which the
\* page has loaded before.
ValidPartsOnPartsPage ==
    /\ 0 \in CachedKeys(cache)
    /\ \E range \in DateRanges :
          ret' = ValidPartsResult("Parts.py", range,
                     query_valid_parts_nx(Entry(cache, 0).value, Str(range[1]), Str(range[2])))
    /\ cache' = Touch(cache, 0)
    /\ recent' = Append(Without(recent, 0), 0)
    /\ io' = <<>>
    /\ UNCHANGED <<files, graph>>

\* pages/Supplier Based.py: the same loop on the page's graph.
ValidPartsOnSupplierPage ==
    /\ 0 \in CachedKeys(cache)
    /\ \E range \in DateRanges :
          ret' = ValidPartsResult("Supplier Based.py", range,
                     query_valid_parts_nx(graph, Str(range[1]), Str(range[2])))
    /\ io' = <<>>
    /\ UNCHANGED <<files, cache, graph, recent>>

\* The sliders of the Parts page: importance 0.0 or 1.0, life in days.
ImportanceThresholds == { Num(0), Num(1) }
LifeThresholds == { Num(0), Num(60), Num(1000) }

BottleneckParts ==
    /\ 0 \in CachedKeys(cache)
    /\ \E importance_threshold \in ImportanceThresholds,
          expected_life_threshold \in LifeThresholds :
          ret' = [op |-> "bottleneck_parts_temporal", exc |-> "none",
                  importance_threshold |-> importance_threshold,
                  expected_life_threshold |-> expected_life_threshold,
                  bottlenecks |-> bottleneck_parts_temporal(Entry(cache, 0).value,
                                      importance_threshold, expected_life_threshold)]
    /\ cache' = Touch(cache, 0)
    /\ recent' = Append(Without(recent, 0), 0)
    /\ io' = <<>>
    /\ UNCHANGED <<files, graph>>

NextParts == Main \/ ValidPartsOnPartsPage \/ ValidPartsOnSupplierPage \/ BottleneckParts

SpecParts == InitParts /\ [][NextParts]_vars

(***************************************************************************)
(* pages/Product Based.py: the transportation cost of a supplier and a     *)
(* warehouse, on the graph and on the document.  pages/Supplier Based.py:  *)
(* supplier_reliability_costing_temporal.  None is the string value None.  *)
(***************************************************************************)
None == [k |-> "none", s |-> "", n |-> 0]

query_transportation_cost_for_supplier_and_warehouse(G, supplier_id, warehouse_id) ==
    IF has_edge(G, supplier_id, warehouse_id)
       /\ EdgeHas(G, supplier_id, warehouse_id, "relationship_type", Str("SupplierToWarehouse"))
    THEN Get(G.adj[<<supplier_id, warehouse_id>>], "transportation_cost", None)
    ELSE None

\* The first record of the pair answers.
query_transportation_cost_for_supplier_and_warehouse_json(json_graph, supplier_id, warehouse_id) ==
    LET edges == json_graph.relationship_values
        hits == { j \in Idx(edges) :
                    /\ edges[j][1] = Str("SupplierToWarehouse")
                    /\ SecondLast(edges[j]) = supplier_id
                    /\ Last(edges[j]) = warehouse_id }
    IN  IF hits = {} THEN None
        ELSE edges[CHOOSE j \in hits : \A j2 \in hits : j <= j2][2]

\* The vertex ids of the document in the order the decoder adds them.
RECURSIVE NodeOrder(_)
NodeOrder(buckets) ==
    IF buckets = <<>> THEN <<>>
    ELSE [j \in Idx(Head(buckets).nodes) |-> Last(Head(buckets).nodes[j])]
         \o NodeOrder(Tail(buckets))

\* graph.edges: every (u, v) of a directed graph; of an undirected one each
\* edge once, from the endpoint added first.
graph_edges(G, order) ==
    IF G.directed THEN DOMAIN G.adj
    ELSE { e \in DOMAIN G.adj : IndexOf(order, e[1]) <= IndexOf(order, e[2]) }

\* transportation_cost >= max_transportation_cost.
CostPasses(transportation_cost, max_transportation_cost) ==
    LessEq(max_transportation_cost, transportation_cost)

supplier_reliability_costing_temporal(G, order, reliability_threshold, max_transportation_cost) ==
    LET cost(e) == Get(G.adj[e], "transportation_cost", Num(0))
        reliability(e) == Get(G.node[e[1]], "reliability", Num(0))
        passing == { e \in graph_edges(G, order) :
                       /\ EdgeHas(G, e[1], e[2], "relationship_type", Str("SupplierToWarehouse"))
                       /\ CostPasses(cost(e), max_transportation_cost)
                       /\ LessEq(reliability(e), reliability_threshold) }
    IN  [items |-> { <<e[1], reliability(e), cost(e)>> : e \in passing },
         len |-> Cardinality(passing)]

\* The snapshots: two suppliers, a warehouse and any of five relationships
\* in document order; S1 -> W1 may be recorded twice, backwards, or under
\* another type as well.
CostRels ==
    << <<Str("SupplierToWarehouse"), Num(4), Str("S1"), Str("W1")>>,
       <<Str("SupplierToWarehouse"), Num(7), Str("S1"), Str("W1")>>,
       <<Str("SupplierToWarehouse"), Num(5), Str("S2"), Str("W1")>>,
       <<Str("SupplierToWarehouse"), Num(6), Str("W1"), Str("S1")>>,
       <<Str("Returns"), Num(9), Str("S1"), Str("W1")>> >>

CostSnapshot(d, chosen) ==
    [directed |-> d,
     node_types |-> [Supplier |-> <<"node_type", "reliability", "id">>,
                     Warehouse |-> <<"node_type", "capacity", "id">>],
     node_values |->
        <<Bucket("Supplier", << <<Str("Supplier"), Num(3), Str("S1")>>,
                                <<Str("Supplier"), Num(8), Str("S2")>> >>),
          Bucket("Warehouse", << <<Str("Warehouse"), Num(500), Str("W1")>> >>)>>,
     relationship_types |->
        [SupplierToWarehouse |-> <<"relationship_type", "transportation_cost">>,
         Returns |-> <<"relationship_type", "quantity">>],
     relationship_values |-> SelectSeq(CostRels, LAMBDA i : i \in chosen)]

InitCost ==
    /\ files \in { <<CostSnapshot(d, chosen)>> :
                     d \in BOOLEAN, chosen \in SUBSET { CostRels[j] : j \in Idx(CostRels) } }
    /\ cache = <<>>
    /\ io = <<>>
    /\ ret = NoCall
    /\ graph = NoGraph
    /\ recent = <<>>

\* pages/Product Based.py lines 219 and 237: the page shows both answers
\* for the supplier and the warehouse selected.
TransportationCost ==
    /\ 0 \in CachedKeys(cache)
    /\ \E supplier_id \in { Str("S1"), Str("S2") } :
          ret' = [op |-> "query_transportation_cost", exc |-> "none",
                  supplier_id |-> supplier_id, warehouse_id |-> Str("W1"),
                  transportation_cost |->
                      query_transportation_cost_for_supplier_and_warehouse(
                          graph, supplier_id, Str("W1")),
                  transportation_cost_json |->
                      query_transportation_cost_for_supplier_and_warehouse_json(
                          files[1], supplier_id, Str("W1"))]
    /\ io' = <<>>
    /\ UNCHANGED <<files, cache, graph, recent>>

\* pages/Supplier Based.py line 398, with the thresholds entered.
ReliabilityCosting ==
    /\ 0 \in CachedKeys(cache)
    /\ \E reliability_threshold \in { Num(3), Num(8) },
          max_transportation_cost \in { Num(5), Num(7) } :
          ret' = [op |-> "supplier_reliability_costing_temporal", exc |-> "none",
                  reliability_threshold |-> reliability_threshold,
                  max_transportation_cost |-> max_transportation_cost,
                  suppliers |-> supplier_reliability_costing_temporal(
                                    graph, NodeOrder(files[1].node_values),
                                    reliability_threshold, max_transportation_cost)]
    /\ io' = <<>>
    /\ UNCHANGED <<files, cache, graph, recent>>

NextCost == Main \/ TransportationCost \/ ReliabilityCosting

SpecCost == InitCost /\ [][NextCost]_vars

(***************************************************************************)
(* structural_queries.py: node_details_query and retrieve_edge_attributes, *)
(* and the queries of main.py together on one cached graph.                *)
(***************************************************************************)
\* graph.nodes[node_id]: the attribute dict, or KeyError.
node_details_query(G, node_id) ==
    IF node_id \notin DOMAIN G.node THEN [exc |-> "KeyError", node_data |-> EmptyDict]
    ELSE [exc |-> "none", node_data |-> G.node[node_id]]

\* One entry per neighbour (successor) of node_id, each with the
\* attributes of its edge; graph.neighbors raises for an unknown vertex.
retrieve_edge_attributes(G, node_id) ==
    IF node_id \notin DOMAIN G.node THEN [exc |-> "NetworkXError", edges |-> {}]
    ELSE [exc |-> "none",
          edges |-> { [from |-> node_id, to |-> neighbor,
                       attributes |-> G.adj[<<node_id, neighbor>>]] :
                      neighbor \in Successors(G, {node_id}) }]

\* The ids typed on the structural tab: vertices of the snapshots and one
\* that none holds.
FrameIds == { Str("P1"), Str("P2"), Str("F1"), Str("PO1"), Str("BG_001") }

NodeDetails ==
    /\ 0 \in CachedKeys(cache)
    /\ \E node_id \in FrameIds :
          LET res == node_details_query(graph, node_id)
          IN  ret' = [op |-> "node_details_query", v |-> node_id, exc |-> res.exc,
                      node_data |-> res.node_data]
    /\ io' = <<>>
    /\ UNCHANGED <<files, cache, graph, recent>>

EdgeAttributesOf ==
    /\ 0 \in CachedKeys(cache)
    /\ \E node_id \in FrameIds :
          LET res == retrieve_edge_attributes(graph, node_id)
          IN  ret' = [op |-> "retrieve_edge_attributes", v |-> node_id, exc |-> res.exc,
                      edges |-> res.edges]
    /\ io' = <<>>
    /\ UNCHANGED <<files, cache, graph, recent>>

\* The tabs of main.py on the graph of timestamp 0.
NextFrame ==
    \/ Main \/ EgoQuery \/ NodeDetails \/ EdgeAttributesOf \/ ShortestPath
    \/ LineageQuery \/ PartsQuery \/ ProfitableQuery

\* The snapshots queried: the offerings' vertices with any of three
\* relationships, F1 into PO1, P1 into F1 and F1 into P2.
InitFrame ==
    /\ files \in { <<OfferingSnapshot(d, chosen, <<"node_type", "cost", "demand", "id">>,
                                      <<50, 20>>)>> :
                     d \in BOOLEAN,
                     chosen \in SUBSET {OfferingRels[1], OfferingRels[3], OfferingRels[6]} }
    /\ cache = <<>>
    /\ io = <<>>
    /\ ret = NoCall
    /\ graph = NoGraph
    /\ recent = <<>>

SpecFrame == InitFrame /\ [][NextFrame]_vars

(***************************************************************************)
(* pages/AcrossTime.py: the five passes over the timestamps, next to the   *)
(* page's load of the graph of timestamp 0.                                *)
(***************************************************************************)
\* The snapshots read: those of the trends that hold a product offering.
InitTemporal ==
    /\ files \in [1..NTrend -> { d \in TrendDocs :
                                   HasBucket(d, "ProductOffering")
                                   /\ BucketOf(d, "ProductOffering") # <<>> }]
    /\ cache = <<>>
    /\ io = <<>>
    /\ ret = NoCall
    /\ graph = NoGraph
    /\ recent = <<>>

NextTemporal ==
    \/ Main \/ TrackAttribute \/ PlotNode \/ TrackEdgeAttribute \/ DetectPeaks
    \/ DetectAnomalies

SpecTemporal == InitTemporal /\ [][NextTemporal]_vars

(***************************************************************************)
(* Reading a document for the statements below.                            *)
(***************************************************************************)
Rels == data0.relationship_values

IsKnown(i) == KnownType(data0.relationship_types, i[1])

\* The attribute names of a record of a known type.
NamesOf(i) == data0.relationship_types[i[1].s]

\* The endpoints a relationship record is stored under.
Endpoints(i) == IF IsKnown(i) THEN <<SecondLast(i), Last(i)>> ELSE <<i[1], i[2]>>

\* Two endpoint pairs name one edge of the decoded graph.
SameEdge(a, b) == a = b \/ (~data0.directed /\ a = <<b[2], b[1]>>)

\* Record idx is the only record stored under its edge.
Alone(idx) ==
    \A j \in Idx(Rels) : j # idx => ~SameEdge(Endpoints(Rels[j]), Endpoints(Rels[idx]))

\* The positions <<b, k>> of the node records: record k of bucket b.
NodeRecs ==
    UNION { { <<b, k>> : k \in Idx(data0.node_values[b].nodes) } : b \in Idx(data0.node_values) }

RecAt(p)   == data0.node_values[p[1]].nodes[p[2]]
TypeAt(p)  == data0.node_values[p[1]].type
FieldsAt(p) == data0.node_types[TypeAt(p)]

\* The record has one value per field name of its type.
Conforming(p) == Len(RecAt(p)) = Len(FieldsAt(p))

UniqueId(p) == \A q \in NodeRecs : q # p => Last(RecAt(q)) # Last(RecAt(p))

(***************************************************************************)
(* C1 (as stated): the edge of a relationship record of a known type pairs *)
(* the k-th attribute name with the k-th value between the type name and   *)
(* the two endpoints.                                                      *)
(***************************************************************************)
C1_AsStated ==
    Decoded =>
        \A idx \in Idx(Rels) :
            LET i == Rels[idx] IN
            (IsKnown(i) /\ Alone(idx)) =>
                /\ Endpoints(i) \in DOMAIN ret.graph.adj
                /\ ret.graph.adj[Endpoints(i)] = ZipDict(NamesOf(i), SubSeq(i, 2, Len(i) - 2))

(***************************************************************************)
(* C1 (amended): the edge of a relationship record of a known type, when   *)
(* it is the only record of its endpoints, pairs the k-th attribute name   *)
(* with the k-th element of the record counted from its first element (the *)
(* type name), for the first len(record) - 2 positions; and decoding       *)
(* raises IndexError when some record of a known type has more than        *)
(* len(names) + 2 elements.                                                *)
(***************************************************************************)
C1_EdgePairsNamesFromTypeName ==
    /\ Decoded =>
        \A idx \in Idx(Rels) :
            LET i == Rels[idx] IN
            LET e == <<i[Len(i) - 1], i[Len(i)]>> IN
            (IsKnown(i) /\ Alone(idx)) =>
                /\ e \in DOMAIN ret.graph.adj
                /\ DOMAIN ret.graph.adj[e] = { NamesOf(i)[j] : j \in 1..(Len(i) - 2) }
                /\ \A j \in 1..(Len(i) - 2) : ret.graph.adj[e][NamesOf(i)[j]] = i[j]
    /\ (ret.op = "_json_to_graph"
        /\ \E idx \in Idx(Rels) : IsKnown(Rels[idx]) /\ Len(Rels[idx]) - 2 > Len(NamesOf(Rels[idx])))
       => ret.exc = "IndexError"

\* A decoded record of four elements whose type name sits under a first
\* attribute name other than relationship_type.
C1_Witness ==
    /\ Decoded
    /\ \E idx \in Idx(Rels) :
          LET i == Rels[idx] IN
          /\ IsKnown(i) /\ Alone(idx) /\ Len(i) = 4
          /\ NamesOf(i)[1] = "distance"
          /\ ret.graph.adj[Endpoints(i)]["distance"] = Str("PartsToFacility")
          /\ ret.graph.adj[Endpoints(i)]["lead_time"] = Num(7)

C3_AsStated ==
    Decoded =>
        /\ \A p \in NodeRecs :
              (UniqueId(p) /\ Conforming(p)) =>
                  /\ "node_type" \in DOMAIN ret.graph.node[Last(RecAt(p))]
                  /\ ret.graph.node[Last(RecAt(p))]["node_type"] = Str(TypeAt(p))
        /\ \A idx \in Idx(Rels) :
              (IsKnown(Rels[idx]) /\ Alone(idx)) =>
                  /\ "relationship_type" \in DOMAIN ret.graph.adj[Endpoints(Rels[idx])]
                  /\ ret.graph.adj[Endpoints(Rels[idx])]["relationship_type"] = Rels[idx][1]

\* The names zipped against a record: the first n of the list.
Zipped(names, n) == { names[j] : j \in 1..Min2(Len(names), n) }

(***************************************************************************)
(* C3 (amended): node_type and relationship_type are ordinary decoded      *)
(* attributes.  A vertex of a record with a unique identifier carries      *)
(* node_type exactly when its type's field list names node_type within the *)
(* record's length, and its value is T when the list names it first and    *)
(* the record's first value is T; an edge of a single record of known type *)
(* R carries relationship_type exactly when the type's list names it       *)
(* within its first len(record) - 2 names, and its value is R when the     *)
(* list names it first.                                                    *)
(***************************************************************************)
C3_TypeAttributesComeFromTheLists ==
    Decoded =>
        /\ \A p \in NodeRecs :
              UniqueId(p) =>
                  LET attrs == ret.graph.node[Last(RecAt(p))] IN
                  /\ "node_type" \in DOMAIN attrs
                        <=> "node_type" \in Zipped(FieldsAt(p), Len(RecAt(p)))
                  /\ (FieldsAt(p)[1] = "node_type" /\ RecAt(p)[1] = Str(TypeAt(p)))
                        => attrs["node_type"] = Str(TypeAt(p))
        /\ \A idx \in Idx(Rels) :
              LET i == Rels[idx] IN
              (IsKnown(i) /\ Alone(idx)) =>
                  LET attrs == ret.graph.adj[<<i[Len(i) - 1], i[Len(i)]>>] IN
                  /\ "relationship_type" \in DOMAIN attrs
                        <=> "relationship_type" \in Zipped(NamesOf(i), Len(i) - 2)
                  /\ (Len(i) > 2 /\ NamesOf(i)[1] = "relationship_type")
                        => attrs["relationship_type"] = i[1]

\* Both cases: a typed vertex and a typed edge, and a document whose lists
\* name neither attribute.
C3_Witness ==
    /\ Decoded
    /\ \E p \in NodeRecs : UniqueId(p) /\ ret.graph.node[Last(RecAt(p))] =
           [node_type |-> Str("Parts"), valid_from |-> Str("bolt"), id |-> Str("P1")]
    /\ \E idx \in Idx(Rels) :
          /\ IsKnown(Rels[idx]) /\ Alone(idx)
          /\ ret.graph.adj[Endpoints(Rels[idx])] =
                 [relationship_type |-> Str("SupplierToWarehouse"), transportation_cost |-> Num(7)]

\* The records stored under edge e, and the per-record attribute dict as
\* the k-th name against the k-th element.
Hits(e) == { j \in Idx(Rels) : SameEdge(Endpoints(Rels[j]), e) }

Supplies(j, x) ==
    IsKnown(Rels[j]) /\ \E q \in 1..(Len(Rels[j]) - 2) : NamesOf(Rels[j])[q] = x

Supplied(j, x) ==
    Rels[j][CHOOSE q \in 1..(Len(Rels[j]) - 2) : NamesOf(Rels[j])[q] = x]

\* Two records of known types with the same ordered (source, target).
Repeated(e) ==
    \E j1, j2 \in Idx(Rels) :
        /\ j1 < j2 /\ IsKnown(Rels[j1]) /\ IsKnown(Rels[j2])
        /\ Endpoints(Rels[j1]) = e /\ Endpoints(Rels[j2]) = e

(***************************************************************************)
(* C4 (as stated): with two or more records of one ordered pair, the       *)
(* edge's attribute dict is exactly the dict of the last such record.      *)
(***************************************************************************)
C4_AsStated ==
    Decoded =>
        \A e \in DOMAIN ret.graph.adj :
            Repeated(e) =>
                LET same == { h \in Idx(Rels) : IsKnown(Rels[h]) /\ Endpoints(Rels[h]) = e }
                    j    == CHOOSE h \in same : \A h2 \in same : h2 <= h
                IN  /\ DOMAIN ret.graph.adj[e] = Zipped(NamesOf(Rels[j]), Len(Rels[j]) - 2)
                    /\ \A x \in DOMAIN ret.graph.adj[e] :
                          Supplies(j, x) /\ ret.graph.adj[e][x] = Supplied(j, x)

(***************************************************************************)
(* C4 (amended): with two or more records of one pair the graph has one    *)
(* edge for it, and each attribute key holds the value of the last record  *)
(* (in document order) that supplies that key: a key only an earlier       *)
(* record supplies survives with that record's value.                      *)
(***************************************************************************)
C4_LastWriteWinsPerKey ==
    Decoded =>
        \A e \in DOMAIN ret.graph.adj :
            Repeated(e) =>
                /\ DOMAIN ret.graph.adj[e] = UNION { Zipped(NamesOf(Rels[j]), Len(Rels[j]) - 2)
                                                     : j \in { h \in Hits(e) : IsKnown(Rels[h]) } }
                /\ \A x \in DOMAIN ret.graph.adj[e] :
                      LET j == CHOOSE h \in Hits(e) :
                                  /\ Supplies(h, x)
                                  /\ \A h2 \in Hits(e) : Supplies(h2, x) => h2 <= h
                      IN  ret.graph.adj[e][x] = Supplied(j, x)

\* The key of the earlier record survives beside the later record's.
C4_Witness ==
    /\ Decoded
    /\ \E e \in DOMAIN ret.graph.adj :
          /\ Repeated(e)
          /\ ret.graph.adj[e] = [relationship_type |-> Str("SupplierToWarehouse"),
                                 distance |-> Num(5), transportation_cost |-> Num(7)]


\* Two node records of different types with one identifier: p is processed
\* before q.
Duplicate(p, q) ==
    /\ p \in NodeRecs /\ q \in NodeRecs
    /\ p[1] < q[1]
    /\ TypeAt(p) # TypeAt(q)
    /\ Last(RecAt(p)) = Last(RecAt(q))

\* The value record p gives field name x.
FieldValue(p, x) ==
    RecAt(p)[CHOOSE k \in 1..Min2(Len(FieldsAt(p)), Len(RecAt(p))) : FieldsAt(p)[k] = x]

FieldsZipped(p) == Zipped(FieldsAt(p), Len(RecAt(p)))

(***************************************************************************)
(* C5 (as stated): with one identifier in records of two node types,       *)
(* decoding fails or the vertex carries exactly the attributes of the      *)
(* record of the later-processed type.                                     *)
(***************************************************************************)
C5_AsStated ==
    (ret.op = "_json_to_graph") =>
        \A p, q \in NodeRecs :
            (Duplicate(p, q) /\ Conforming(p) /\ Conforming(q)) =>
                \/ ret.exc # "none"
                \/ /\ DOMAIN ret.graph.node[Last(RecAt(q))] = FieldsZipped(q)
                   /\ \A x \in FieldsZipped(q) :
                         ret.graph.node[Last(RecAt(q))][x] = FieldValue(q, x)

(***************************************************************************)
(* C5 (amended): with one identifier in records of two node types, a       *)
(* decode that returns yields a single vertex on which every field the     *)
(* later-processed type names has the later record's value, and every      *)
(* field only the earlier type names keeps the earlier record's value.     *)
(***************************************************************************)
C5_LaterTypeWinsPerField ==
    Decoded =>
        \A p, q \in NodeRecs :
            Duplicate(p, q) =>
                LET attrs == ret.graph.node[Last(RecAt(q))] IN
                /\ DOMAIN attrs = FieldsZipped(p) \cup FieldsZipped(q)
                /\ \A x \in FieldsZipped(q) : attrs[x] = FieldValue(q, x)
                /\ \A x \in FieldsZipped(p) \ FieldsZipped(q) : attrs[x] = FieldValue(p, x)

\* The hybrid vertex: typed Facility, still carrying the part's valid_from.
C5_Witness ==
    /\ Decoded
    /\ \E p, q \in NodeRecs :
          /\ Duplicate(p, q)
          /\ ret.graph.node[Str("P1")] =
                 [node_type |-> Str("Facility"), max_capacity |-> Str("plant"),
                  valid_from |-> Str("bolt"), id |-> Str("P1")]


(***************************************************************************)
(* The snapshot cache.                                                     *)
(***************************************************************************)
Loaded == ret.op = "load_graph_at_timestamp" /\ ret.exc = "none"

ValidTimestamps == 0..(Len(files) - 1)

(***************************************************************************)
(* C6: after any sequence of calls, the graph returned for a valid         *)
(* timestamp t has the vertices, edges and attributes of a fresh decode of *)
(* file t, on a hit, on a first miss and on a reload after eviction.       *)
(***************************************************************************)
C6_ReturnedGraphIsFreshDecode ==
    (Loaded /\ ret.t \in ValidTimestamps) =>
        /\ _json_to_graph(files[ret.t + 1]).exc = "none"
        /\ ret.graph = _json_to_graph(files[ret.t + 1]).graph
        /\ ret.graph.node[Str("P1")]["size"] = Num(ret.t)

\* Timestamp 0, loaded first by main, is decoded again after its eviction.
C6_Witness ==
    /\ Loaded /\ ret.t = 0 /\ io = <<0>>
    /\ Len(cache) = maxsize
    /\ ret.graph.node[Str("P1")]["size"] = Num(0)

\* The cached key served least recently.
Oldest(c, order) ==
    LET at == { j \in Idx(order) : order[j] \in CachedKeys(c) }
    IN  order[CHOOSE j \in at : \A j2 \in at : j <= j2]

(***************************************************************************)
(* C7: the cache never holds more than 10 graphs; a miss when 10 are held  *)
(* evicts exactly the entry served least recently (by hit or insertion); a *)
(* hit refreshes the recency of its entry and opens no file; a miss on a   *)
(* valid timestamp opens exactly that timestamp's file.                    *)
(***************************************************************************)
C7_Step ==
    LET t   == ret'.t
        hit == t \in CachedKeys(cache)
    IN  /\ Len(cache') <= maxsize
        /\ Cardinality(CachedKeys(cache')) = Len(cache')
        /\ hit =>
              /\ io' = <<>>
              /\ CachedKeys(cache') = CachedKeys(cache)
        /\ (~hit /\ t \in ValidTimestamps) => io' = <<t>>
        /\ (~hit /\ ret'.exc = "none") =>
              /\ CachedKeys(cache') =
                    IF Len(cache) = maxsize
                    THEN (CachedKeys(cache) \ {Oldest(cache, recent)}) \cup {t}
                    ELSE CachedKeys(cache) \cup {t}
        /\ (~hit /\ ret'.exc # "none") => cache' = cache

C7_LruAtMostTen == [][ret'.op = "load_graph_at_timestamp" => C7_Step]_vars

\* A miss with 10 graphs held has just evicted an entry that a hit had
\* refreshed earlier than the others.
C7_Witness ==
    /\ Loaded /\ ret.t = NFiles - 1 /\ io = <<ret.t>>
    /\ Len(cache) = maxsize
    /\ recent = <<1, 2, 3, 4, 5, 6, 7, 8, 9, 0, 10>>
    /\ CachedKeys(cache) = {0} \cup (2..10)

(***************************************************************************)
(* C8 (as stated): a call with a timestamp outside 0..N-1 raises and adds  *)
(* no entry to the cache.                                                  *)
(***************************************************************************)
C8_AsStated ==
    /\ (ret.op = "load_graph_at_timestamp" /\ ret.t \notin ValidTimestamps) => ret.exc # "none"
    /\ CachedKeys(cache) \subseteq ValidTimestamps


(***************************************************************************)
(* Ego queries (SpecQuery).                                                *)
(***************************************************************************)
\* An ego query that returned, and its arguments.
EgoReturned == ret.op = "ego_graph_query" /\ ret.exc = "none"

\* The sequences of at most n + 1 vertices of main's graph.
Walks(n) == UNION { [1..m -> DOMAIN graph.node] : m \in 1..(n + 1) }

\* Every step of p follows an edge from its source to its target.
Forward(p) == \A j \in 1..(Len(p) - 1) : <<p[j], p[j + 1]>> \in DOMAIN graph.adj

\* Every step of p follows an edge, in either direction.
EitherWay(p) ==
    \A j \in 1..(Len(p) - 1) :
        <<p[j], p[j + 1]>> \in DOMAIN graph.adj \/ <<p[j + 1], p[j]>> \in DOMAIN graph.adj

ForwardWithin(v, r) ==
    { w \in DOMAIN graph.node :
        \E p \in Walks(r) : p[1] = v /\ p[Len(p)] = w /\ Forward(p) }

EitherWayWithin(v, r) ==
    { w \in DOMAIN graph.node :
        \E p \in Walks(r) : p[1] = v /\ p[Len(p)] = w /\ EitherWay(p) }

\* H is the subgraph of main's graph induced by nodes.
InducedBy(H, nodes) ==
    /\ H.directed = graph.directed
    /\ DOMAIN H.node = nodes
    /\ \A x \in nodes : H.node[x] = graph.node[x]
    /\ DOMAIN H.adj = { e \in DOMAIN graph.adj : e[1] \in nodes /\ e[2] \in nodes }
    /\ \A e \in DOMAIN H.adj : H.adj[e] = graph.adj[e]

\* C9 as stated: on a directed graph the ego graph of v at radius r is
\* induced by the vertices within r hops of v when edge direction is
\* ignored, a predecessor of v included at radius 1.
C9_AsStated ==
    (EgoReturned /\ graph.directed) =>
        InducedBy(ret.graph, EitherWayWithin(ret.v, ret.r))

\* C9, amended: on a directed decoded graph, ego_graph_query(graph, v, r)
\* with v a vertex and r >= 0 returns the subgraph induced by exactly the
\* vertices reachable from v by following at most r edges from source to
\* target; a vertex reachable only against an edge's direction is left out.
C9_EgoFollowsEdgeDirection ==
    (EgoReturned /\ graph.directed) =>
        /\ InducedBy(ret.graph, ForwardWithin(ret.v, ret.r))
        /\ \A w \in EitherWayWithin(ret.v, ret.r) \ ForwardWithin(ret.v, ret.r) :
              w \notin DOMAIN ret.graph.node

\* P3 -> P1 -> P2, radius 1 from P1: the successor P2 is in the ego graph,
\* the predecessor P3 is not.
C9_Witness ==
    /\ EgoReturned /\ graph.directed
    /\ ret.v = Str("P1") /\ ret.r = 1
    /\ <<Str("P3"), Str("P1")>> \in DOMAIN graph.adj
    /\ <<Str("P1"), Str("P2")>> \in DOMAIN graph.adj
    /\ Str("P2") \in DOMAIN ret.graph.node
    /\ Str("P3") \notin DOMAIN ret.graph.node

\* The snapshot holds a relationship record from v to v.
LoopRecord(v) ==
    \E j \in Idx(files[1].relationship_values) :
        LET i == files[1].relationship_values[j]
        IN  SecondLast(i) = v /\ Last(i) = v

\* C10 as stated: at radius 0 the ego graph of an existing vertex v has the
\* vertex set {v} and no edge, also when a record links v to itself.
C10_AsStated ==
    (EgoReturned /\ ret.r = 0) =>
        /\ DOMAIN ret.graph.node = {ret.v}
        /\ DOMAIN ret.graph.adj = {}

\* C10, amended: at radius 0 the ego graph of an existing vertex v has the
\* vertex set {v}, with v's attributes, and no edge, except that when the
\* snapshot holds a relationship record from v to v it has exactly that
\* one edge, with its attributes.
C10_RadiusZeroKeepsOnlyTheLoop ==
    (EgoReturned /\ ret.r = 0) =>
        /\ DOMAIN ret.graph.node = {ret.v}
        /\ ret.graph.node[ret.v] = graph.node[ret.v]
        /\ DOMAIN ret.graph.adj = IF LoopRecord(ret.v) THEN {<<ret.v, ret.v>>} ELSE {}
        /\ \A e \in DOMAIN ret.graph.adj : ret.graph.adj[e] = graph.adj[e]

\* Radius 0 from P1, which has a successor and a relationship to itself.
C10_Witness ==
    /\ EgoReturned /\ ret.r = 0 /\ ret.v = Str("P1")
    /\ LoopRecord(Str("P1"))
    /\ <<Str("P1"), Str("P2")>> \in DOMAIN graph.adj
    /\ DOMAIN ret.graph.adj = {<<Str("P1"), Str("P1")>>}
    /\ ret.graph.adj[<<Str("P1"), Str("P1")>>]["distance"] = Num(6)


(***************************************************************************)
(* Shortest paths (SpecPath).                                              *)
(***************************************************************************)
\* The sequences of distinct vertices of main's graph that follow its
\* edges from source to destination.
PathsBetween(source, destination) ==
    { p \in Walks(Cardinality(DOMAIN graph.node) - 1) :
        /\ p[1] = source /\ p[Len(p)] = destination
        /\ \A j, j2 \in Idx(p) : p[j] = p[j2] => j = j2
        /\ Forward(p) }

\* The weight of the edge u -> v, 1 when it has none.
WeightOrOne(u, v) ==
    IF "weight" \in DOMAIN graph.adj[<<u, v>>] THEN graph.adj[<<u, v>>]["weight"].n ELSE 1

RECURSIVE PathCost(_)
PathCost(p) ==
    IF Len(p) <= 1 THEN 0 ELSE WeightOrOne(p[1], p[2]) + PathCost(Tail(p))

\* C11 as stated: when source and destination exist and a path joins them,
\* find_shortest_path returns a list from source to destination along
\* existing edges, with a length that is the sum of the weights along it
\* (1 for an edge without weight), and no path has a smaller sum.
C11_AsStated ==
    (/\ ret.op = "find_shortest_path"
     /\ PathsBetween(ret.source, ret.destination) # {}) =>
        /\ ret.kind = "path"
        /\ ret.path \in PathsBetween(ret.source, ret.destination)
        /\ ret.length = PathCost(ret.path)
        /\ \A q \in PathsBetween(ret.source, ret.destination) : ret.length <= PathCost(q)


(***************************************************************************)
(* Ancestors and descendants (SpecQuery).                                  *)
(***************************************************************************)
Lineage == ret.op = "get_ancestors_descendants"

\* There is a directed path from u to w: at least one edge, no vertex
\* visited twice.
HasPath(u, w) ==
    \E p \in Walks(Cardinality(DOMAIN graph.node) - 1) :
        /\ Len(p) >= 2 /\ p[1] = u /\ p[Len(p)] = w
        /\ \A j, j2 \in Idx(p) : p[j] = p[j2] => j = j2
        /\ Forward(p)

\* C12: on a directed graph, cyclic or not, the query on an existing v
\* returns as ancestors exactly the vertices with a directed path into v
\* and as descendants exactly the vertices with a directed path from v; on
\* an undirected graph it raises TypeError, whether or not v exists.
C12_AncestorsAndDescendantsAreThePathClosures ==
    Lineage =>
        /\ (graph.directed /\ ret.v \in DOMAIN graph.node) =>
              /\ ret.exc = "none"
              /\ ret.ancestors = { w \in DOMAIN graph.node : HasPath(w, ret.v) }
              /\ ret.descendants = { w \in DOMAIN graph.node : HasPath(ret.v, w) }
        /\ ~graph.directed => ret.exc = "TypeError"

\* The chain P1 -> P2 -> P3 closed into a cycle by P3 -> P1, queried at P3:
\* P1 and P2 are both ancestors and descendants of P3, and P3 is neither.
C12_Witness ==
    /\ Lineage /\ ret.exc = "none" /\ ret.v = Str("P3")
    /\ Len(files[1].relationship_values) = 3
    /\ <<Str("P3"), Str("P1")>> \in DOMAIN graph.adj
    /\ ret.ancestors = {Str("P1"), Str("P2")}
    /\ ret.descendants = {Str("P1"), Str("P2")}


(***************************************************************************)
(* Trends across the timestamps (SpecTrend).                               *)
(***************************************************************************)
\* The records of a type in the snapshot of timestamp t, none when the
\* snapshot has no bucket of the type.
RecordsAt(t, node_type) ==
    IF HasBucket(files[t + 1], node_type) THEN BucketOf(files[t + 1], node_type) ELSE <<>>

\* The snapshot of timestamp t has a record of the type, and the type's
\* names list the attribute.
Qualifies(t, node_type, attribute) ==
    /\ RecordsAt(t, node_type) # <<>>
    /\ Contains(files[t + 1].node_types[node_type], attribute)

\* The attribute of a record, as the decoder names it.
AttributeOf(t, node_type, node, attribute) ==
    ZipDict(files[t + 1].node_types[node_type], node)[attribute].n

\* mean is the arithmetic mean of the attribute over the records: the
\* records' values add up to mean times their number.
IsMeanAt(mean, t, node_type, attribute) ==
    LET nodes == RecordsAt(t, node_type)
        total[j \in 0..Len(nodes)] ==
            IF j = 0 THEN 0
            ELSE total[j - 1] + AttributeOf(t, node_type, nodes[j], attribute)
    IN  mean.n * Len(nodes) = total[Len(nodes)] * mean.d

\* C13: the trend holds, in ascending timestamp order, one (timestamp,
\* mean) pair for exactly the timestamps that have a record of the type and
\* whose type lists the attribute, the mean taken over all the type's
\* records of that timestamp; [10, 20], [30], [] give (0, 15), (1, 30).
C13_TrendHasOneMeanPerQualifyingTimestamp ==
    ret.op = "track_attribute_over_time" =>
        /\ ret.exc = "none"
        /\ Len(ret.timestamps) = Len(ret.attribute_values)
        /\ \A j, j2 \in Idx(ret.timestamps) : j < j2 => ret.timestamps[j] < ret.timestamps[j2]
        /\ { ret.timestamps[j] : j \in Idx(ret.timestamps) }
              = { t \in 0..(Len(files) - 1) : Qualifies(t, ret.node_type, ret.attribute) }
        /\ \A j \in Idx(ret.timestamps) :
              IsMeanAt(ret.attribute_values[j], ret.timestamps[j], ret.node_type, ret.attribute)

\* Demands [10, 20], [30] and [] at timestamps 0, 1, 2: (0, 15), (1, 30),
\* nothing for 2.
C13_Witness ==
    /\ ret.op = "track_attribute_over_time"
    /\ ret.node_type = "ProductOffering" /\ ret.attribute = "demand"
    /\ Len(RecordsAt(0, "ProductOffering")) = 2
    /\ RecordsAt(2, "ProductOffering") = <<>>
    /\ ret.timestamps = <<0, 1>>
    /\ ret.attribute_values = <<FracOf(15), FracOf(30)>>


\* The buckets of timestamp t that hold a record whose identifier is
\* node_id, by position in the document.
BucketsHolding(t, node_id) ==
    { b \in Idx(files[t + 1].node_values) :
        \E j \in Idx(files[t + 1].node_values[b].nodes) :
            Last(files[t + 1].node_values[b].nodes[j]) = Str(node_id) }

\* C14 as stated: at most one value is recorded per timestamp; it is the
\* attribute of the first record whose identifier is node_id, in the first
\* bucket holding one (if that type defines the attribute), and no later
\* bucket adds a second value for the timestamp.
C14_AsStated ==
    ret.op = "plot_attribute_for_node_streamlit" =>
        /\ \A j, j2 \in Idx(ret.timestamps) : ret.timestamps[j] = ret.timestamps[j2] => j = j2
        /\ \A j \in Idx(ret.timestamps) :
              LET t == ret.timestamps[j]
                  held == BucketsHolding(t, ret.node_id)
                  b == CHOOSE b \in held : \A b2 \in held : b <= b2
                  bucket == files[t + 1].node_values[b]
                  node == bucket.nodes[CHOOSE k \in Idx(bucket.nodes) :
                              /\ Last(bucket.nodes[k]) = Str(ret.node_id)
                              /\ \A k2 \in 1..(k - 1) : Last(bucket.nodes[k2]) # Str(ret.node_id)]
              IN  /\ held # {}
                  /\ ret.attribute_values[j]
                        = ZipDict(files[t + 1].node_types[bucket.type], node)[ret.attribute]


EdgeTrendDone == ret.op = "track_edge_attribute_over_time_streamlit"

\* The records of the type at timestamp t, when the type's names list the
\* attribute; none otherwise.
EdgesAt(t, edge_type, attribute) ==
    IF /\ edge_type \in DOMAIN files[t + 1].relationship_types
       /\ Contains(files[t + 1].relationship_types[edge_type], attribute)
    THEN OfType(files[t + 1], edge_type) ELSE <<>>

\* (timestamps, means) report, for exactly the timestamps with a record,
\* the arithmetic mean of the elements at the position Position gives, in
\* ascending timestamp order.
ReportsMeans(Position(_)) ==
    /\ ret.exc = "none"
    /\ Len(ret.timestamps) = Len(ret.attribute_values)
    /\ \A j, j2 \in Idx(ret.timestamps) : j < j2 => ret.timestamps[j] < ret.timestamps[j2]
    /\ { ret.timestamps[j] : j \in Idx(ret.timestamps) }
          = { t \in 0..(Len(files) - 1) : EdgesAt(t, ret.edge_type, ret.attribute) # <<>> }
    /\ \A j \in Idx(ret.timestamps) :
          LET t == ret.timestamps[j]
              edges == EdgesAt(t, ret.edge_type, ret.attribute)
              at == Position(files[t + 1].relationship_types[ret.edge_type])
              total[k \in 0..Len(edges)] ==
                  IF k = 0 THEN 0 ELSE total[k - 1] + edges[k][at].n
          IN  ret.attribute_values[j].n * Len(edges) = total[Len(edges)] * ret.attribute_values[j].d

\* The 1-based place of the attribute among the names.
PlaceOf(names) == IndexOf(names, ret.attribute) + 1

\* The k-th element after the type name, for the k-th name.
AfterTypeName(names) == 1 + PlaceOf(names)

\* C15 as stated: for each timestamp with a record of the type the trend
\* reports the mean of the attribute, the value for the k-th name being the
\* k-th element after the type name.
C15_AsStated == EdgeTrendDone => ReportsMeans(AfterTypeName)

\* C15, amended: for each timestamp with a record of the type (whose names
\* list the attribute) the trend reports the mean of the attribute, the
\* value for the k-th name being the record's k-th element, counted from
\* the type name as the first; other timestamps are omitted.
C15_EdgeTrendReadsTheNamesPosition == EdgeTrendDone => ReportsMeans(PlaceOf)

\* Shipments costing 4 and 8 at timestamp 0 and 6 at timestamp 1, none at
\* timestamp 2: (0, 6), (1, 6).
C15_Witness ==
    /\ EdgeTrendDone
    /\ ret.edge_type = "SupplierToWarehouse" /\ ret.attribute = "transportation_cost"
    /\ Len(EdgesAt(0, ret.edge_type, ret.attribute)) = 2
    /\ EdgesAt(2, ret.edge_type, ret.attribute) = <<>>
    /\ ret.timestamps = <<0, 1>>
    /\ ret.attribute_values = <<FracOf(6), FracOf(6)>>


(***************************************************************************)
(* Anomalies (SpecAnomaly).  The statements below are in integers: with    *)
(* the per-timestamp means v[j] = n[j] / d[j], D the product of the d[j]   *)
(* and x[j] = v[j] * D, n values of sum S have mean m = S / (n * D),       *)
(* deviations v[j] - m = (n * x[j] - S) / (n * D) and population variance  *)
(* s^2 = Sum (n * x[k] - S)^2 / (n * (n * D)^2).                           *)
(***************************************************************************)
Detected == ret.op = "detect_anomalies"

RECURSIVE Product(_)
Product(ds) == IF ds = <<>> THEN 1 ELSE Head(ds) * Product(Tail(ds))

RECURSIVE Total(_)
Total(xs) == IF xs = <<>> THEN 0 ELSE Head(xs) + Total(Tail(xs))

Scaled(values) ==
    LET D == Product([j \in Idx(values) |-> values[j].d])
    IN  [j \in Idx(values) |-> values[j].n * (D \div values[j].d)]

\* n * x[j] - S for every j.
Deviations(values) ==
    LET x == Scaled(values)
    IN  [j \in Idx(values) |-> Len(values) * x[j] - Total(x)]

\* |v[j] - m| / s > z, strictly, with s > 0:
\* n * dev[j]^2 * z.d^2 > z.n^2 * Sum dev[k]^2.
Outlier(values, j, z) ==
    LET dev == Deviations(values)
        squares == Total([k \in Idx(values) |-> dev[k] * dev[k]])
    IN  /\ squares > 0
        /\ Len(values) * dev[j] * dev[j] * z.d * z.d > z.n * z.n * squares

\* The per-timestamp mean trend is the one track_attribute_over_time
\* reports: one mean per qualifying timestamp.
TrendOfMeans ==
    /\ Len(ret.timestamps) = Len(ret.attribute_values)
    /\ \A j, j2 \in Idx(ret.timestamps) : j < j2 => ret.timestamps[j] < ret.timestamps[j2]
    /\ { ret.timestamps[j] : j \in Idx(ret.timestamps) }
          = { t \in 0..(Len(files) - 1) : Qualifies(t, "BusinessGroup", "revenue") }
    /\ \A j \in Idx(ret.timestamps) :
          IsMeanAt(ret.attribute_values[j], ret.timestamps[j], "BusinessGroup", "revenue")

\* C16: the timestamps flagged are exactly those of the trend whose mean v
\* has |v - m| / s > z_threshold, strictly, m and s being the population
\* mean and standard deviation of the per-timestamp means; the trend
\* [10, 10, 10, 100] has its last timestamp flagged at 1.1 and none at 2.0.
C16_FlagsExactlyTheOutliersOfTheTrend ==
    Detected =>
        /\ ret.exc = "none"
        /\ TrendOfMeans
        /\ { ret.anomalies[j] + 1 : j \in Idx(ret.anomalies) }
              = { j \in Idx(ret.attribute_values) :
                    Outlier(ret.attribute_values, j, ret.z_threshold) }
        /\ \A j, j2 \in Idx(ret.anomalies) : j < j2 => ret.anomalies[j] < ret.anomalies[j2]
        /\ ret.attribute_values = <<FracOf(10), FracOf(10), FracOf(10), FracOf(100)>> =>
              /\ ret.z_threshold = Frac(11, 10) => ret.anomalies = <<3>>
              /\ ret.z_threshold = Frac(2, 1) => ret.anomalies = <<>>

\* The trend [10, 10, 10, 100] at z_threshold 1.1: the last timestamp, and
\* only it, is flagged.
C16_Witness ==
    /\ Detected /\ ret.z_threshold = Frac(11, 10)
    /\ ret.timestamps = <<0, 1, 2, 3>>
    /\ ret.attribute_values = <<FracOf(10), FracOf(10), FracOf(10), FracOf(100)>>
    /\ ret.anomalies = <<3>>

\* C17 as stated: when every value of the trend is the same (a single
\* timestamp included), detect_anomalies ends in a degenerate-distribution
\* error and does not complete normally.
C17_AsStated ==
    (/\ Detected
     /\ ret.attribute_values # <<>>
     /\ \A j \in Idx(ret.attribute_values) : ret.attribute_values[j] = ret.attribute_values[1])
        => ret.exc # "none"


(***************************************************************************)
(* Product offerings (SpecOffering).                                       *)
(***************************************************************************)
\* The ids of the snapshot's records of a type.
IdsOfType(type) ==
    IF HasBucket(files[1], type)
    THEN { Last(BucketOf(files[1], type)[j]) : j \in Idx(BucketOf(files[1], type)) }
    ELSE {}

\* The snapshot holds a relationship record of the type from u to v (in
\* either order when the snapshot is undirected).
Linked(type, u, v) ==
    \E j \in Idx(files[1].relationship_values) :
        LET i == files[1].relationship_values[j]
        IN  /\ i[1] = Str(type)
            /\ \/ <<SecondLast(i), Last(i)>> = <<u, v>>
               \/ (~files[1].directed /\ <<SecondLast(i), Last(i)>> = <<v, u>>)

\* C18: the parts returned are, each once, exactly the parts q for which
\* some facility f has a FacilityToProductOfferings edge f -> p and a
\* PartsToFacility edge q -> f; none when p is not a vertex.
C18_PartsAreThoseTwoEdgesFromTheOffering ==
    ret.op = "query_parts_for_product_offering" =>
        LET p == ret.product_offering_id IN
        /\ ret.parts.len = Cardinality(ret.parts.items)
        /\ ret.parts.items =
              { q \in IdsOfType("Parts") :
                  \E f \in IdsOfType("Facility") :
                      /\ Linked("FacilityToProductOfferings", f, p)
                      /\ Linked("PartsToFacility", q, f) }
        /\ p \notin DOMAIN graph.node => ret.parts.len = 0

\* P1 supplies both facilities of PO1 and P2 one of them; the record from
\* F1 to P2 is in the snapshot: the parts of PO1 are P1 and P2, each once.
C18_Witness ==
    /\ ret.op = "query_parts_for_product_offering"
    /\ ret.product_offering_id = Str("PO1")
    /\ graph.directed
    /\ Len(files[1].relationship_values) = 6
    /\ <<Str("F1"), Str("P2")>> \in DOMAIN graph.adj
    /\ ret.parts = [items |-> {Str("P1"), Str("P2")}, len |-> 2]


\* The product-offering records of the snapshot and their names.
OfferingRecords == BucketOf(files[1], "ProductOffering")
NamesOfOffering == files[1].node_types["ProductOffering"]

\* The record lists the field, and its value.
Lists(field) == Contains(NamesOfOffering, field)
Field(rec, field) == rec[IndexOf(NamesOfOffering, field) + 1].n

\* C19: the products returned are exactly the product offerings with
\* cost <= c and demand >= d, both inclusive (cost 100 and demand 10 pass
\* c = 100 and d = 10), each with its cost and demand; an offering without
\* cost is never returned and one without demand counts as demand 0.
C19_ProfitableAreWithinBothThresholds ==
    ret.op = "query_profitable_products" =>
        LET c == ret.cost_threshold.n
            d == ret.demand_threshold.n
            DemandOf(rec) == IF Lists("demand") THEN Field(rec, "demand") ELSE 0
            passing == { j \in Idx(OfferingRecords) :
                           /\ Lists("cost")
                           /\ Field(OfferingRecords[j], "cost") <= c
                           /\ DemandOf(OfferingRecords[j]) >= d }
        IN  /\ ret.profitable_products.items =
                  { <<Last(OfferingRecords[j]), Num(Field(OfferingRecords[j], "cost")),
                      Num(DemandOf(OfferingRecords[j]))>> : j \in passing }
            /\ ret.profitable_products.len = Cardinality(passing)
            /\ ~Lists("cost") => ret.profitable_products.len = 0

\* Thresholds 100 and 10: PO1 (cost 100, demand 10) is returned, PO2 (cost
\* 101, demand 10) is not.
C19_Witness ==
    /\ ret.op = "query_profitable_products"
    /\ ret.cost_threshold = Num(100) /\ ret.demand_threshold = Num(10)
    /\ OfferingRecords[2] = <<Str("ProductOffering"), Num(101), Num(10), Str("PO2")>>
    /\ ret.profitable_products = [items |-> {<<Str("PO1"), Num(100), Num(10)>>}, len |-> 1]


(***************************************************************************)
(* Suppliers of a part (SpecSuppliers).                                    *)
(***************************************************************************)
\* The suppliers with a SupplierToWarehouse record into a warehouse that
\* has a WarehouseToParts record into the part.
QualifyingSuppliers(part_id) ==
    { s \in IdsOfType("SUPPLIERS") :
        \E w \in IdsOfType("WAREHOUSE") :
            /\ Linked("SupplierToWarehouse", s, w)
            /\ Linked("WarehouseToParts", w, part_id) }

\* C20 as stated: every implementation returns each qualifying supplier
\* exactly once, also one that reaches the part through two warehouses.
C20_AsStated ==
    (/\ ret.op = "query_suppliers_for_part_via_warehouse"
     /\ ret.exc = "none") =>
        /\ ret.items = QualifyingSuppliers(ret.part_id)
        /\ ret.len = Cardinality(ret.items)


(***************************************************************************)
(* Parts and their dates (SpecParts).                                      *)
(***************************************************************************)
\* The records of a type in the snapshot, and a record's attribute as the
\* type's names list it.
RecordsOf(type) == { BucketOf(files[1], type)[j] : j \in Idx(BucketOf(files[1], type)) }
Names(type) == files[1].node_types[type]
Has(type, field) == Contains(Names(type), field)
Value(type, rec, field) == rec[IndexOf(Names(type), field) + 1]

\* The string is a date of the calendar, written year-month-day.
IsDate(value) ==
    value.k = "str" /\ value.s \in {"2024-01-01", "2024-02-01", "2024-03-01",
                                     "2024-12-31", "2025-01-01"}

\* Dates written year-month-day with two-digit months and days compare as
\* their strings do: a is not after b.
NotAfter(a, b) ==
    LET order == <<"2024-01-01", "2024-02-01", "2024-03-01", "2024-12-31", "2025-01-01">>
    IN  IndexOf(order, a) <= IndexOf(order, b)

\* C21 as stated: the vertices returned are exactly the PARTS vertices with
\* both valid_from and valid_till parseable, valid_from <= end and
\* valid_till >= start; no vertex of another type is returned.
C21_AsStated ==
    (ret.op = "query_valid_parts_nx" /\ ret.parsed) =>
        ret.items =
            { Last(rec) : rec \in
                { rec \in RecordsOf("PARTS") :
                    /\ Has("PARTS", "valid_from") /\ Has("PARTS", "valid_till")
                    /\ IsDate(Value("PARTS", rec, "valid_from"))
                    /\ IsDate(Value("PARTS", rec, "valid_till"))
                    /\ NotAfter(Value("PARTS", rec, "valid_from").s, ret.end_date)
                    /\ NotAfter(ret.start_date, Value("PARTS", rec, "valid_till").s) } }


\* The days from one date of the snapshots to another: January 2024 has 31
\* days and February 2024 has 29.
DaysBetween(from, till) ==
    CASE from = till -> 0
      [] from = "2024-01-01" /\ till = "2024-03-01" -> 31 + 29
      [] from = "2024-03-01" /\ till = "2024-01-01" -> 0 - (31 + 29)

\* C25: bottleneck_parts_temporal returns, each once, exactly the PARTS
\* vertices whose importance_factor (0 when the type has none) is >= the
\* importance threshold and whose expected life, valid_till minus
\* valid_from in days, is <= the life threshold, each with its importance
\* and expected life; a part with a date that cannot be parsed is never
\* returned, and neither is one without valid_till, whose life runs to the
\* year 9999.
C25_BottlenecksAreImportantShortLivedParts ==
    ret.op = "bottleneck_parts_temporal" =>
        LET Importance(rec) ==
                IF Has("PARTS", "importance_factor")
                THEN Value("PARTS", rec, "importance_factor").n ELSE 0
            Dated(rec) ==
                /\ Has("PARTS", "valid_from") /\ Has("PARTS", "valid_till")
                /\ IsDate(Value("PARTS", rec, "valid_from"))
                /\ IsDate(Value("PARTS", rec, "valid_till"))
            Life(rec) == DaysBetween(Value("PARTS", rec, "valid_from").s,
                                     Value("PARTS", rec, "valid_till").s)
            passing == { rec \in RecordsOf("PARTS") :
                           /\ Importance(rec) >= ret.importance_threshold.n
                           /\ Dated(rec)
                           /\ Life(rec) <= ret.expected_life_threshold.n }
        IN  /\ ret.bottlenecks.items =
                  { <<Last(rec), Num(Importance(rec)), Num(Life(rec))>> : rec \in passing }
            /\ ret.bottlenecks.len = Cardinality({ Last(rec) : rec \in passing })

\* A part with an unparseable valid_till and enough importance is left out
\* while the sixty-day part next to it is returned.
C25_Witness ==
    /\ ret.op = "bottleneck_parts_temporal"
    /\ ret.importance_threshold = Num(1) /\ ret.expected_life_threshold = Num(60)
    /\ <<Str("PARTS"), Num(1), Str("2024-01-01"), Str("01/02/2024"), Str("P1")>>
           \in RecordsOf("PARTS")
    /\ ret.bottlenecks = [items |-> {<<Str("P2"), Num(1), Num(60)>>}, len |-> 1]


(***************************************************************************)
(* Suppliers and transportation costs (SpecCost).                          *)
(***************************************************************************)
\* C22 as stated: for every snapshot, supplier and warehouse the lookup on
\* the graph and the lookup on the document give the same answer, None or
\* the transportation cost, also with several records for the pair.
C22_AsStated ==
    ret.op = "query_transportation_cost" =>
        ret.transportation_cost = ret.transportation_cost_json

\* The SupplierToWarehouse records of the snapshot.
SupplyRecords ==
    { files[1].relationship_values[j] : j \in
        { j \in Idx(files[1].relationship_values) :
            files[1].relationship_values[j][1] = Str("SupplierToWarehouse") } }

\* The reliability of a vertex, as its record gives it.
ReliabilityOf(id) ==
    LET recs == { rec \in RecordsOf("Supplier") : Last(rec) = id }
    IN  IF recs = {} THEN 0 ELSE (CHOOSE rec \in recs : TRUE)[2].n

\* C23 as stated: on a directed snapshot with one record per pair, the
\* triples returned are exactly those of the SupplierToWarehouse records
\* whose transportation cost is at most max_transportation_cost and whose
\* supplier's reliability is at most reliability_threshold.
C23_AsStated ==
    (/\ ret.op = "supplier_reliability_costing_temporal"
     /\ files[1].directed
     /\ \A a, b \in { files[1].relationship_values[j] : j \in Idx(files[1].relationship_values) } :
           (SecondLast(a) = SecondLast(b) /\ Last(a) = Last(b)) => a = b) =>
        ret.suppliers.items =
            { <<SecondLast(i), Num(ReliabilityOf(SecondLast(i))), i[2]>> : i \in
                { i \in SupplyRecords :
                    /\ i[2].n <= ret.max_transportation_cost.n
                    /\ ReliabilityOf(SecondLast(i)) <= ret.reliability_threshold.n } }


(***************************************************************************)
(* Peak and off-peak periods (SpecTrend).                                  *)
(***************************************************************************)
\* The mean of the attribute at timestamp t is at least n: the records'
\* values add up to at least n times their number.
MeanAtLeast(t, node_type, attribute, n) ==
    LET nodes == RecordsAt(t, node_type)
        total[j \in 0..Len(nodes)] ==
            IF j = 0 THEN 0
            ELSE total[j - 1] + AttributeOf(t, node_type, nodes[j], attribute)
    IN  total[Len(nodes)] >= n * Len(nodes)

\* C24: every timestamp of the trend is in exactly one of the two lists,
\* once: in peak_periods iff its mean >= threshold, in off_peak_periods iff
\* its mean < threshold; a timestamp with no qualifying record is in
\* neither.
C24_PeakIffMeanAtLeastThreshold ==
    ret.op = "detect_peak_and_off_peak_periods" =>
        LET peak == { ret.peak_periods[j] : j \in Idx(ret.peak_periods) }
            off  == { ret.off_peak_periods[j] : j \in Idx(ret.off_peak_periods) }
            trend == { t \in 0..(Len(files) - 1) : Qualifies(t, ret.node_type, ret.attribute) }
        IN  /\ ret.exc = "none"
            /\ { ret.timestamps[j] : j \in Idx(ret.timestamps) } = trend
            /\ peak = { t \in trend :
                          MeanAtLeast(t, ret.node_type, ret.attribute, ret.threshold.n) }
            /\ off = trend \ peak
            /\ Cardinality(peak) = Len(ret.peak_periods)
            /\ Cardinality(off) = Len(ret.off_peak_periods)

\* Demand means 15 and 30 at timestamps 0 and 1 and no offering at 2: with
\* the threshold 15 both are peaks (15 >= 15); 2 is in neither list.
C24_Witness ==
    /\ ret.op = "detect_peak_and_off_peak_periods"
    /\ ret.node_type = "ProductOffering" /\ ret.attribute = "demand"
    /\ ret.threshold = FracOf(15)
    /\ ret.attribute_values = <<FracOf(15), FracOf(30)>>
    /\ RecordsAt(2, "ProductOffering") = <<>>
    /\ ret.peak_periods = <<0, 1>> /\ ret.off_peak_periods = <<>>


(***************************************************************************)
(* What the dashboard shows for a shortest path (SpecPath).                *)
(***************************************************************************)
\* C26 as stated: whenever both vertices exist and the destination can be
\* reached from the source, also when the two are one vertex and the total
\* cost is 0, the dashboard writes the path and its length, never the
\* no-path warning or the error message.
C26_AsStated ==
    (/\ ret.op = "find_shortest_path"
     /\ ret.exc = "none"
     /\ PathsBetween(ret.source, ret.destination) # {}) =>
        ret.shown = "path"


(***************************************************************************)
(* A load that fails (Spec).                                               *)
(***************************************************************************)
\* C27: a call of load_graph_at_timestamp that raises (a file that cannot
\* be read, a document without its relationship_values key) leaves the
\* cache as it was, no entry inserted or evicted; and the call after it,
\* for a timestamp cached before, is a hit that opens no file and returns
\* the graph the cache held.
C27_Step ==
    /\ (ret'.op = "load_graph_at_timestamp" /\ ret'.exc # "none") =>
          /\ cache' = cache
          /\ ret'.t \notin CachedKeys(cache')
    /\ (/\ ret.op = "load_graph_at_timestamp" /\ ret.exc # "none"
        /\ ret'.op = "load_graph_at_timestamp" /\ ret'.t \in CachedKeys(cache)) =>
          /\ ret'.exc = "none"
          /\ io' = <<>>
          /\ ret'.graph = Entry(cache, ret'.t).value
          /\ ret'.t \in ValidTimestamps =>
                ret'.graph = _json_to_graph(files[ret'.t + 1]).graph

C27_FailedLoadLeavesTheCache == [][C27_Step]_vars

\* Timestamps 0 and 2..10 fill the cache, the load of the unreadable file 1
\* has failed, and timestamp 0 is served from the cache after it.
C27_Witness ==
    /\ files[2] = Unreadable
    /\ Len(cache) = maxsize
    /\ CachedKeys(cache) = {0} \cup (2..10)
    /\ Loaded /\ ret.t = 0 /\ io = <<>>
    /\ recent = <<2, 3, 4, 5, 6, 7, 8, 9, 10, 0>>


(***************************************************************************)
(* The cached graph under the queries (SpecFrame).                         *)
(***************************************************************************)
\* C28: after any sequence of queries (ego graph, node details, edge
\* attributes, shortest path, ancestors and descendants, parts of a product
\* offering, profitable products) the cached graph, which is the graph
\* main holds, has the vertices, edges and attributes of the decode that
\* built it.
C28_QueriesLeaveTheCachedGraph ==
    (ret.op # "none") =>
        /\ Len(cache) = 1
        /\ cache[1].value = _json_to_graph(files[1]).graph
        /\ graph = cache[1].value

\* An ego query has returned one vertex of a graph that has six, with
\* edges.
C28_Witness ==
    /\ ret.op = "ego_graph_query" /\ ret.exc = "none"
    /\ Cardinality(DOMAIN ret.graph.node) = 1
    /\ Cardinality(DOMAIN cache[1].value.node) = 6
    /\ Cardinality(DOMAIN cache[1].value.adj) >= 3


(***************************************************************************)
(* The anomaly query of the page (SpecAnomaly).                            *)
(***************************************************************************)
\* C30 as stated: the trend analysed is that of the node type and
\* attribute selected on the page: its timestamps are those holding the
\* selected type with the selected attribute, and its values their means.
C30_AsStated ==
    Detected =>
        /\ { ret.timestamps[j] : j \in Idx(ret.timestamps) }
              = { t \in 0..(Len(files) - 1) : Qualifies(t, ret.node_type, ret.attribute) }
        /\ \A j \in Idx(ret.timestamps) :
              IsMeanAt(ret.attribute_values[j], ret.timestamps[j], ret.node_type, ret.attribute)

(***************************************************************************)
(* The files and the cache under the passes (SpecTemporal).                *)
(***************************************************************************)
TemporalOps ==
    { "track_attribute_over_time", "plot_attribute_for_node_streamlit",
      "track_edge_attribute_over_time_streamlit", "detect_peak_and_off_peak_periods",
      "detect_anomalies" }

\* C29: a call of one of the five temporal operations opens the file of
\* every timestamp 0..N-1 once, in ascending order, and leaves the cache
\* as it was: no graph inserted or evicted, no recency refreshed.
C29_Step ==
    ret'.op \in TemporalOps =>
        /\ Len(io') = Len(files)
        /\ \A j \in Idx(io') : io'[j] = j - 1
        /\ cache' = cache
        /\ recent' = recent

C29_PassesReadEveryFileOnceAndLeaveTheCache == [][C29_Step]_vars

\* The anomaly search has read the three files with the graph of
\* timestamp 0 in the cache.
C29_Witness ==
    /\ ret.op = "detect_anomalies"
    /\ Len(files) >= 3 /\ Len(io) = Len(files) /\ io[1] = 0 /\ io[Len(io)] = Len(files) - 1
    /\ Len(cache) = 1 /\ cache[1].key = 0
    /\ recent = <<0>>

=============================================================================
